---- MODULE Spec2Model ----
(***************************************************************************)
(* A model of the Fleet Session Core of nlnog-ring-exporter:               *)
(*   core/session_manager.py  SSHSessionManager                           *)
(*   core/node_manager.py     NodeManager, _balanced_sample                *)
(*   core/node_cache_store.py save_node_cache / load_node_cache            *)
(*                                                                         *)
(* Every critical section of the Python code (a `with lock:` block) and    *)
(* every subprocess / file / HTTP call is one atomic step of the thread    *)
(* that runs it.  Threads are the cache thread ("refresh"), the signal /   *)
(* worker-exit path ("shutdown"), one pool worker per hostname (the        *)
(* worker's id is the hostname) and two free callers of the public         *)
(* SSHSessionManager API ("call1", "call2").                               *)
(***************************************************************************)
EXTENDS Integers, Sequences, FiniteSets, TLC

VARIABLES
    \* ---- SSHSessionManager and the ssh processes / files it supervises
    active_sessions,   \* self.active_sessions
    masters,           \* control-socket paths that have a live ssh master
    sockfiles,         \* entries of the control directory
    \* ---- threads
    pc,                \* position of every thread
    arg,               \* hostname argument of the start/stop call in progress
    cont,              \* where the thread continues when that call returns
    ret,               \* value returned by the thread's last start_session
    \* ---- history of the free callers' start_session calls
    calls,             \* number of calls made by the free callers
    spawned,           \* caller -> its current/last call ran the ssh spawn
    failed,            \* caller -> that spawn failed (and was rolled back)
    peers,             \* caller -> callers whose call on the same host overlapped
    \* ---- NodeManager
    node_cache,        \* self.node_cache: the Roster, a sequence of node records
    session_health,    \* self.session_health: hostname -> "healthy" | "restarted"
    \* ---- a request handler's call of fetch_healthy_nodes / _balanced_sample
    fh_limit,          \* limit: <<>> is None, <<n>> is the integer n
    fh_filters,        \* filters: field -> set of allowed values
    fh_nodes,          \* the local list (nodes, then healthy)
    fh_hmap,           \* the health map as it was when the handler read it
    fh_out,            \* how the call ended: [raised, nodes]
    \* ---- NodeManager: shutdown event, cache file, locals of the cache thread
    shutdown_event,    \* self.shutdown_event.is_set()
    cache_file,        \* node_cache.json on disk: None or Some(JSON text)
    cached_nodes,      \* startup_restore_sessions: cached_nodes
    api_nodes,         \* startup_restore_sessions: api_nodes
    to_start,          \* start_sessions_parallel: to_start
    uncollected,       \* futures whose completion the caller has not handled yet
    filtered,          \* run_cache_loop: filtered
    stale,             \* run_cache_loop: stale hostnames still to stop
    iter,              \* refresh iterations begun
    clean,             \* the last finished iteration raised no exception
    prev_hosts,        \* hostnames of the Roster the last publish replaced
    \* ---- cleanup_stale_sockets
    entries,           \* os.listdir(control_dir)
    todo,              \* entries the loop has not reached yet
    probed,            \* entry -> outcome of its check probe
    rm_failed,         \* entries whose os.remove raised OSError
    \* ---- cleanup
    hosts,             \* cleanup: the snapshot's hostnames still to stop
    \* ---- GET /probe (app/routes.py)
    rq_target,         \* the target parameter: None, or Some(kind of name)
    rq_limit,          \* the limit parameter: None, or Some(its characters)
    rq_args,           \* the filter parameters: field -> comma-separated values
    resp,              \* status code of the answer, 0 while there is none
    results,           \* hostname -> status label of its ping, as collected
    \* ---- ping_from_node (core/ping.py)
    pg_run,            \* how the ssh subprocess ended, and what it printed
    pg_status,         \* the status returned, "" before the call
    pg_stats,          \* the stats returned: None, or Some(record of floats)
    \* ---- save_node_cache / load_node_cache (core/node_cache_store.py)
    tmp_file,          \* the mkstemp file: None, or Some(text written so far)
    last_saved,        \* history: the roster of the last save that replaced the file
    sv_ok,             \* history: the save just made replaced the file
    ld_err,            \* history: the load just made caught an exception
    \* ---- sync_sessions (core/session_manager.py), per calling thread
    sy_desired,        \* the argument desired_hostnames
    sy_current,        \* the snapshot `current` taken under the lock
    sy_add,            \* what the first loop has yet to visit of to_add
    sy_remove,         \* what the second loop has yet to visit of to_remove
    sy_started,        \* history: hostnames start_session was called for
    sy_stopped,        \* history: hostnames stop_session was called for
    \* ---- the four locks
    lk_owner,          \* lock -> the thread that holds it and how many times
    lk_todo            \* thread -> the acquisitions and releases it has yet to do

svars == << active_sessions, masters, sockfiles, pc, arg, cont, ret >>
hvars == << calls, spawned, failed, peers >>
fvars == << fh_limit, fh_filters, fh_nodes, fh_hmap, fh_out >>
nvars == << node_cache, session_health >>
rvars == << shutdown_event, cache_file, cached_nodes, api_nodes, to_start,
            uncollected, filtered, stale, iter, clean, prev_hosts >>
kvars == << entries, todo, probed, rm_failed >>
cvars == << hosts >>
qvars == << rq_target, rq_limit, rq_args, resp, results >>
gvars == << pg_run, pg_status, pg_stats >>
jvars == << tmp_file, last_saved, sv_ok, ld_err >>
yvars == << sy_desired, sy_current, sy_add, sy_remove, sy_started, sy_stopped >>
lvars == << lk_owner, lk_todo >>
xvars == << qvars, gvars, jvars, yvars, lvars >>
vars == << svars, hvars, nvars, fvars, rvars, kvars, cvars, xvars >>

\* What no step of start_session / stop_session touches.
NotSession == << nvars, fvars, rvars, kvars, cvars, xvars >>

----------------------------------------------------------------------------
(* Universe *)

Hosts == {"a.example", "b.example"}

Callers == {"call1", "call2"}
Threads == {"refresh", "shutdown", "handler"} \cup Hosts \cup Callers

\* Bound on the number of start_session calls the free callers make.
MaxCalls == 3

\* core/config.py: SSH_USERNAME default and the fixed port substituted for %p.
SSH_USERNAME == "rise"

\* A file name of the control directory is a sequence of tokens.  The template
\* "nlnog-%r@%h:%p" expands to  nlnog- , user , @ , host , : , 22 .
ssh_control_path(hostname) ==
    << "nlnog-", SSH_USERNAME, "@", hostname, ":", "22" >>

\* Optional values: None is << >>, a present value v is << v >>.
None == << >>
Some(v) == << v >>

\* How a call ended: it returned a list of nodes, or an exception left it.
Returned(ns) == [done |-> TRUE, raised |-> FALSE, nodes |-> ns]
Raised == [done |-> TRUE, raised |-> TRUE, nodes |-> << >>]
NoOutcome == [done |-> FALSE, raised |-> FALSE, nodes |-> << >>]

----------------------------------------------------------------------------
(* Node records and the filter fields (core/node_manager.py) *)

\* JSON null / Python None as a field value.
Null == "<null>"

HostPool == {"a.example", "b.example", "c.example", "d.example"}

\* The node record filter_api_nodes builds for each hostname of the catalog.
NodeRec(h) ==
    CASE h = "a.example" ->
           [hostname |-> h, asn |-> "64500", city |-> "Amsterdam",
            countrycode |-> "NL", continent |-> "Europe", company |-> "Acme"]
      [] h = "b.example" ->
           [hostname |-> h, asn |-> "64501", city |-> "Berlin",
            countrycode |-> "DE", continent |-> "Europe", company |-> "Unknown"]
      [] h = "c.example" ->
           [hostname |-> h, asn |-> "64502", city |-> Null,
            countrycode |-> "US", continent |-> "North America", company |-> "Acme"]
      [] OTHER ->
           [hostname |-> h, asn |-> "64503", city |-> "Tokyo",
            countrycode |-> "JP", continent |-> "Asia", company |-> "Unknown"]

NODE_FILTER_FIELDS ==
    [node |-> Null, asn |-> "asn", city |-> "city", countrycode |-> "countrycode",
     continent |-> "continent", company |-> "company"]

\* str.lower() on the values that occur.
Lower(v) ==
    CASE v = "Europe" -> "europe"
      [] v = "North America" -> "north america"
      [] v = "Asia" -> "asia"
      [] v = "Amsterdam" -> "amsterdam"
      [] v = "Berlin" -> "berlin"
      [] v = "Tokyo" -> "tokyo"
      [] v = "Acme" -> "acme"
      [] v = "Unknown" -> "unknown"
      [] v = "NL" -> "nl"
      [] v = "DE" -> "de"
      [] v = "US" -> "us"
      [] v = "JP" -> "jp"
      [] OTHER -> v

\* hostname.split('.')[0]
ShortName(hostname) ==
    CASE hostname = "a.example" -> "a"
      [] hostname = "b.example" -> "b"
      [] hostname = "c.example" -> "c"
      [] hostname = "d.example" -> "d"
      [] OTHER -> hostname

\* _node_field_value(node, field): node.get(key) or ""
node_field_value(node, field) ==
    IF field = "node" THEN ShortName(node.hostname)
    ELSE LET v == node[NODE_FILTER_FIELDS[field]]
         IN  IF v = Null THEN "" ELSE v

\* str.index / str.rindex: the first / last position of tok, 0 for ValueError.
index(seq, tok) ==
    IF \E i \in 1..Len(seq) : seq[i] = tok
    THEN CHOOSE i \in 1..Len(seq) :
            seq[i] = tok /\ \A j \in 1..(i - 1) : seq[j] # tok
    ELSE 0

rindex(seq, tok) ==
    IF \E i \in 1..Len(seq) : seq[i] = tok
    THEN CHOOSE i \in 1..Len(seq) :
            seq[i] = tok /\ \A j \in (i + 1)..Len(seq) : seq[j] # tok
    ELSE 0

Range(s) == {s[i] : i \in 1..Len(s)}
Min(a, b) == IF a < b THEN a ELSE b
Hostnames(nodes) == {nodes[i].hostname : i \in 1..Len(nodes)}

\* The sequences of k distinct elements of the set S.
Arrangements(S, k) ==
    {s \in [1..k -> S] : \A i, j \in 1..k : i # j => s[i] # s[j]}

\* An outcome over positions of a list: the chosen positions, or an exception.
Picked(idx) == [raised |-> FALSE, idx |-> idx]
PickRaised == [raised |-> TRUE, idx |-> << >>]

\* random.sample(population, k): ValueError unless 0 <= k <= len(population).
random_sample(population, k) ==
    IF k < 0 \/ k > Len(population)
    THEN {PickRaised}
    ELSE {Picked(s) : s \in Arrangements(Range(population), k)}

----------------------------------------------------------------------------
(* _balanced_sample(nodes, limit, filters), over positions 1..len(nodes) *)

balance_fields(filters) == {f \in DOMAIN filters : Cardinality(filters[f]) > 1}

GroupKey(nodes, filters, i) ==
    [f \in balance_fields(filters) |-> Lower(node_field_value(nodes[i], f))]

GroupKeys(nodes, filters) == {GroupKey(nodes, filters, i) : i \in 1..Len(nodes)}

Group(nodes, filters, key) ==
    SelectSeq([i \in 1..Len(nodes) |-> i],
              LAMBDA i : GroupKey(nodes, filters, i) = key)

\* A quota that drops the remainder of the division.
QuotaNoRemainder(limit, nkeys, i) == limit \div nkeys

\* quotas[key] for the i-th key of the shuffled order (i counts from 1).
Quota(limit, nkeys, i) ==
    (limit \div nkeys) + (IF i - 1 < limit % nkeys THEN 1 ELSE 0)

\* Mutant: the shortfall is not filled.
FillShortfallNot(n, result, shortfall) == {Picked(result)}

\* Fill shortfall from nodes not yet selected.
FillShortfall(n, result, shortfall) ==
    IF shortfall > 0
    THEN LET remaining == SelectSeq([i \in 1..n |-> i],
                                    LAMBDA i : i \notin Range(result))
         IN  IF remaining # << >>
             THEN {Picked(result \o s) :
                     s \in Arrangements(Range(remaining),
                                        Min(shortfall, Len(remaining)))}
             ELSE {Picked(result)}
    ELSE {Picked(result)}

\* The loop over group_keys, from its i-th key on.
RECURSIVE TakeFromGroups(_, _, _, _, _, _, _)
TakeFromGroups(nodes, limit, filters, group_keys, i, result, shortfall) ==
    IF i > Len(group_keys)
    THEN FillShortfall(Len(nodes), result, shortfall)
    ELSE LET group == Group(nodes, filters, group_keys[i])
             quota == Quota(limit, Len(group_keys), i)
             take == Min(quota, Len(group))
         IN  IF take < 0
             THEN {PickRaised}
             ELSE UNION {TakeFromGroups(nodes, limit, filters, group_keys, i + 1,
                                        result \o s, shortfall + (quota - take)) :
                           s \in Arrangements(Range(group), take)}

balanced_sample(nodes, limit, filters) ==
    IF balance_fields(filters) = {}
    THEN random_sample([i \in 1..Len(nodes) |-> i], limit)
    ELSE LET keys == GroupKeys(nodes, filters)
         IN  IF keys = {}
             THEN {PickRaised}            \* divmod(limit, 0): ZeroDivisionError
             ELSE UNION {TakeFromGroups(nodes, limit, filters, order, 1, << >>, 0) :
                           order \in Arrangements(keys, Cardinality(keys))}

\* The list of nodes an outcome over positions stands for.
AsOutcome(nodes, o) ==
    IF o.raised THEN Raised
    ELSE Returned([k \in 1..Len(o.idx) |-> nodes[o.idx[k]]])

----------------------------------------------------------------------------
(* NodeManager.fetch_healthy_nodes, run by a request handler *)

IsHealthy(hmap, hostname) ==
    hostname \in DOMAIN hmap /\ hmap[hostname] = "healthy"

PassesFilters(node, filters) ==
    \A field \in DOMAIN filters :
        Lower(node_field_value(node, field)) \in filters[field]

\* with self.cache_lock: nodes = self.node_cache.copy()
FetchCache ==
    /\ pc["handler"] = "fh_cache"
    /\ fh_nodes' = node_cache
    /\ pc' = [pc EXCEPT !["handler"] = "fh_health"]
    /\ UNCHANGED << active_sessions, masters, sockfiles, arg, cont, ret, hvars,
                    nvars, fh_limit, fh_filters, fh_hmap, fh_out,
                    rvars, kvars, cvars, xvars >>

\* Mutant: every node that has a health entry counts as healthy.
HealthyOfAnyEntry(nodes, hmap) ==
    SelectSeq(nodes, LAMBDA n : n.hostname \in DOMAIN hmap)

\* [n for n in nodes if self.session_health.get(n["hostname"]) == "healthy"]
HealthyOf(nodes, hmap) ==
    SelectSeq(nodes, LAMBDA n : IsHealthy(hmap, n.hostname))

\* with self.session_health_lock: healthy = [...]
FetchHealth ==
    /\ pc["handler"] = "fh_health"
    /\ fh_nodes' = HealthyOf(fh_nodes, session_health)
    /\ fh_hmap' = session_health
    /\ pc' = [pc EXCEPT !["handler"] = "fh_sample"]
    /\ UNCHANGED << active_sessions, masters, sockfiles, arg, cont, ret, hvars,
                    nvars, fh_limit, fh_filters, fh_out,
                    rvars, kvars, cvars, xvars >>

\* if filters: for field, allowed_values in filters.items(): healthy = [...]
Filtered(healthy, filters) ==
    SelectSeq(healthy, LAMBDA n : PassesFilters(n, filters))

\* The rest of fetch_healthy_nodes: the sample, or the whole filtered list.
FetchOutcomes(healthy0, limit, filters) ==
    LET healthy == Filtered(healthy0, filters)
    IN  IF limit # None /\ limit[1] < Len(healthy)
        THEN IF DOMAIN filters # {}
             THEN {AsOutcome(healthy, o) :
                     o \in balanced_sample(healthy, limit[1], filters)}
             ELSE {AsOutcome(healthy, o) :
                     o \in random_sample([i \in 1..Len(healthy) |-> i], limit[1])}
        ELSE {Returned(healthy)}

FetchSample ==
    /\ pc["handler"] = "fh_sample"
    /\ fh_out' \in FetchOutcomes(fh_nodes, fh_limit, fh_filters)
    /\ pc' = [pc EXCEPT !["handler"] = "fh_done"]
    /\ UNCHANGED << active_sessions, masters, sockfiles, arg, cont, ret, hvars,
                    nvars, fh_limit, fh_filters, fh_nodes, fh_hmap,
                    rvars, kvars, cvars, xvars >>

\* A direct call _balanced_sample(nodes, limit, filters).
BalancedSampleCall ==
    /\ pc["handler"] = "bs_call"
    /\ fh_out' \in {AsOutcome(fh_nodes, o) :
                      o \in balanced_sample(fh_nodes, fh_limit[1], fh_filters)}
    /\ pc' = [pc EXCEPT !["handler"] = "bs_done"]
    /\ UNCHANGED << active_sessions, masters, sockfiles, arg, cont, ret, hvars,
                    nvars, fh_limit, fh_filters, fh_nodes, fh_hmap,
                    rvars, kvars, cvars, xvars >>

\* A pool worker of the cache thread demotes a healthy host while the handler
\* runs: session_health[hostname] = "restarted" (check_and_manage_ssh_session).
WorkerDemotes(h) ==
    /\ IsHealthy(session_health, h)
    /\ session_health' = [session_health EXCEPT ![h] = "restarted"]
    /\ UNCHANGED << svars, hvars, node_cache, fvars, rvars, kvars, cvars, xvars >>

----------------------------------------------------------------------------
(* Inputs of the sampling specifications *)

\* Largest limit a request passes.
MaxLimit == 4

PoolOrder == << "a.example", "b.example", "c.example", "d.example" >>

\* The roster the catalog yields for a set of live hostnames.
RosterOf(S) ==
    LET hs == SelectSeq(PoolOrder, LAMBDA h : h \in S)
    IN  [i \in 1..Len(hs) |-> NodeRec(hs[i])]

ContinentSets ==
    {{"europe"}, {"europe", "north america"}, {"europe", "north america", "asia"},
     {"Europe", "asia"}}
NodeSets == {{"a"}, {"a", "c", "d"}}
CitySets == {{"amsterdam", ""}}

\* The filter dicts the /probe handler builds: field -> set of allowed values.
FilterChoices ==
    LET Allowed(f) == CASE f = "continent" -> ContinentSets
                        [] f = "node" -> NodeSets
                        [] OTHER -> CitySets
    IN  UNION {{flt \in [D -> UNION {Allowed(f) : f \in D}] :
                  \A f \in D : flt[f] \in Allowed(f)} :
               D \in SUBSET {"continent", "node", "city"}}

Limits == {None} \cup {Some(n) : n \in -1..MaxLimit}

----------------------------------------------------------------------------
(* json.dump / json.load on a roster (core/node_cache_store.py).  A JSON     *)
(* text is what has been written of "[", the objects in order, and "]"; an   *)
(* object maps each key to a literal, null or a quoted string.               *)

\* The literal json.dump writes for a field value.
json_literal(v) == IF v = Null THEN << "null" >> ELSE << "\"", v, "\"" >>

\* A reader that takes every literal for the text between its quotes.
json_valueNullAsText(lit) == lit[Len(lit) - (Len(lit) \div 2)]

\* The value json.load reads from a literal.
json_value(lit) == IF lit = << "null" >> THEN Null ELSE lit[2]

\* json.dump(nodes, f), run to its end.
json_dumps(nodes) ==
    [open |-> TRUE,
     objs |-> [i \in 1..Len(nodes) |->
                 [k \in DOMAIN nodes[i] |-> json_literal(nodes[i][k])]],
     close |-> TRUE]

\* A file just created by mkstemp, and what json.dump leaves in it when the
\* write fails part-way.
EmptyText == [open |-> FALSE, objs |-> << >>, close |-> FALSE]
Truncations(text) ==
    {EmptyText} \cup
    {[open |-> TRUE, objs |-> SubSeq(text.objs, 1, n), close |-> FALSE] :
        n \in 0..Len(text.objs)}

\* json.load(f): the list, or None for the JSONDecodeError of a text that
\* does not end.
json_loads(text) ==
    IF text.open /\ text.close
    THEN Some([i \in 1..Len(text.objs) |->
                 [k \in DOMAIN text.objs[i] |-> json_value(text.objs[i][k])]])
    ELSE None

\* load_node_cache(): what json.load reads from _CACHE_PATH, or None when
\* open or json.load raises.
load_node_cache ==
    {None} \cup (IF cache_file = None THEN {} ELSE {json_loads(cache_file[1])})

\* No shutdown requested; the locals of the cache thread and of cleanup unset.
CacheThreadNew ==
    /\ shutdown_event = FALSE
    /\ lk_owner = [l \in {"cache", "session", "health", "status"} |-> [by |-> "none", n |-> 0]]
    /\ lk_todo = [t \in Threads |-> << >>]
    /\ sy_desired = [t \in Callers |-> {}]
    /\ sy_current = [t \in Callers |-> {}]
    /\ sy_add = [t \in Callers |-> {}]
    /\ sy_remove = [t \in Callers |-> {}]
    /\ sy_started = [t \in Callers |-> {}]
    /\ sy_stopped = [t \in Callers |-> {}]
    /\ tmp_file = None
    /\ last_saved = None
    /\ sv_ok = FALSE
    /\ ld_err = FALSE
    /\ cached_nodes = None
    /\ api_nodes = None
    /\ to_start = {}
    /\ uncollected = {}
    /\ filtered = << >>
    /\ stale = {}
    /\ iter = 0
    /\ clean = FALSE
    /\ prev_hosts = {}
    /\ entries = {}
    /\ todo = {}
    /\ probed = << >>
    /\ rm_failed = {}
    /\ hosts = {}

\* No request in progress.
RequestIdle ==
    /\ pg_run = [kind |-> "none", output |-> << >>]
    /\ pg_status = ""
    /\ pg_stats = None
    /\ rq_target = None
    /\ rq_limit = None
    /\ rq_args = << >>
    /\ resp = 0
    /\ results = << >>

HandlerIdle ==
    /\ RequestIdle
    /\ fh_limit = None
    /\ fh_filters = << >>
    /\ fh_nodes = << >>
    /\ fh_hmap = << >>
    /\ fh_out = NoOutcome

IdleThreads ==
    /\ active_sessions = {}
    /\ masters = {}
    /\ sockfiles = {}
    /\ arg = [t \in Threads |-> "a.example"]
    /\ cont = [t \in Threads |-> "idle"]
    /\ ret = [t \in Threads |-> FALSE]
    /\ calls = 0
    /\ spawned = [t \in Callers |-> FALSE]
    /\ failed = [t \in Callers |-> FALSE]
    /\ peers = [t \in Callers |-> {}]
    /\ cache_file = None
    /\ CacheThreadNew

\* _balanced_sample applied to any list of nodes that passed the filters.
InitSample ==
    /\ IdleThreads
    /\ RequestIdle
    /\ pc = [t \in Threads |-> IF t = "handler" THEN "bs_call" ELSE "idle"]
    /\ node_cache = << >>
    /\ session_health = << >>
    /\ fh_filters \in FilterChoices
    /\ fh_limit \in {Some(n) : n \in 0..MaxLimit}
    /\ \E S \in SUBSET HostPool : fh_nodes = Filtered(RosterOf(S), fh_filters)
    /\ fh_hmap = << >>
    /\ fh_out = NoOutcome

SpecSample == InitSample /\ [][BalancedSampleCall]_vars

\* fetch_healthy_nodes on any roster and health map, with any limit and filters.
InitFetch ==
    /\ IdleThreads
    /\ RequestIdle
    /\ pc = [t \in Threads |-> IF t = "handler" THEN "fh_cache" ELSE "idle"]
    /\ \E k \in 0..Len(PoolOrder) :
          node_cache = RosterOf({PoolOrder[i] : i \in 1..k})
    /\ \E K \in SUBSET HostPool : session_health \in [K -> {"healthy", "restarted"}]
    /\ fh_filters \in FilterChoices
    /\ fh_limit \in Limits
    /\ fh_nodes = << >>
    /\ fh_hmap = << >>
    /\ fh_out = NoOutcome

NextFetch ==
    \/ FetchCache
    \/ FetchHealth
    \/ FetchSample
    \/ \E h \in Hostnames(node_cache) : WorkerDemotes(h)

SpecFetch == InitFetch /\ [][NextFetch]_vars

----------------------------------------------------------------------------
(* C4, C5, C10 *)

NoDuplicates(seq) == \A i, j \in 1..Len(seq) : i # j => seq[i] # seq[j]

\* C4: what fetch_healthy_nodes returns has at most `limit` records, every
\* record's hostname was healthy in the health map the call read, and every
\* record passes every supplied filter.
C4_FetchHealthyContract ==
    (fh_out.done /\ ~fh_out.raised /\ pc["handler"] = "fh_done") =>
        /\ fh_limit # None => Len(fh_out.nodes) <= fh_limit[1]
        /\ \A i \in 1..Len(fh_out.nodes) :
              /\ IsHealthy(fh_hmap, fh_out.nodes[i].hostname)
              /\ PassesFilters(fh_out.nodes[i], fh_filters)
              /\ fh_out.nodes[i] \in Range(node_cache)

\* A sampled answer: fewer records than the healthy filtered nodes, under a
\* filter, while a roster host that passes the filter was left out because its
\* health was restarted when the map was read.
C4_Witness ==
    /\ pc["handler"] = "fh_done" /\ ~fh_out.raised
    /\ DOMAIN fh_filters # {}
    /\ fh_limit # None /\ Len(fh_out.nodes) = fh_limit[1] /\ fh_limit[1] >= 2
    /\ Len(fh_nodes) > fh_limit[1]
    /\ \E i \in 1..Len(node_cache) :
          /\ PassesFilters(node_cache[i], fh_filters)
          /\ node_cache[i].hostname \in DOMAIN fh_hmap
          /\ fh_hmap[node_cache[i].hostname] = "restarted"

SampleSizeOk(out, nodes, limit) ==
    /\ ~out.raised
    /\ Len(out.nodes) = Min(limit, Len(nodes))
    /\ NoDuplicates(out.nodes)
    /\ Range(out.nodes) \subseteq Range(nodes)

SampleRaises(nodes, limit, filters) ==
    IF balance_fields(filters) = {} THEN limit > Len(nodes) ELSE nodes = << >>

InBucket(nodes, filters, key) ==
    Cardinality({k \in 1..Len(nodes) : GroupKey(nodes, filters, k) = key})

\* C26: with B buckets over the multi-valued filter fields and limit L, each
\* bucket's quota is L div B or one more, and exactly L mod B buckets get the
\* extra one; for every shuffle under which each bucket holds at least its
\* quota the sample takes exactly the quota from each bucket; and when every
\* bucket holds at least the larger quota, the returned sample has L div B or
\* one more from each bucket, the extra one from exactly L mod B of them.
C26_BalancedQuota ==
    (pc["handler"] = "bs_done" /\ balance_fields(fh_filters) # {} /\ fh_nodes # << >>) =>
        LET L == fh_limit[1]
            keys == GroupKeys(fh_nodes, fh_filters)
            B == Cardinality(keys)
            base == L \div B
            extra == L % B
            size(key) == Len(Group(fh_nodes, fh_filters, key))
            taken(key) == InBucket(fh_out.nodes, fh_filters, key)
        IN  /\ \A i \in 1..B : Quota(L, B, i) \in {base, base + 1}
            /\ Cardinality({i \in 1..B : Quota(L, B, i) = base + 1}) = extra
            /\ \A order \in Arrangements(keys, B) :
                  (\A i \in 1..B : size(order[i]) >= Quota(L, B, i)) =>
                     \A o \in TakeFromGroups(fh_nodes, L, fh_filters, order, 1, << >>, 0) :
                        /\ ~o.raised
                        /\ \A i \in 1..B :
                              Cardinality({k \in 1..Len(o.idx) :
                                  o.idx[k] \in Range(Group(fh_nodes, fh_filters, order[i]))})
                                 = Quota(L, B, i)
            /\ (\A key \in keys : size(key) >= base + (IF extra > 0 THEN 1 ELSE 0)) =>
                  /\ ~fh_out.raised
                  /\ \A key \in keys : taken(key) \in {base, base + 1}
                  /\ Cardinality({key \in keys : taken(key) = base + 1}) = extra
                  /\ \A k1, k2 \in keys : taken(k1) - taken(k2) <= 1

\* Limit 2 over a bucket of two European nodes and a bucket of one North
\* American node: the sample holds one node of each.
C26_Witness ==
    /\ pc["handler"] = "bs_done" /\ ~fh_out.raised
    /\ balance_fields(fh_filters) = {"continent"}
    /\ Hostnames(fh_nodes) = {"a.example", "b.example", "c.example"}
    /\ fh_limit[1] = 2
    /\ Len(fh_out.nodes) = 2
    /\ {n.continent : n \in Range(fh_out.nodes)} = {"Europe", "North America"}

\* C10: no public operation ends by raising; here fetch_healthy_nodes, for
\* every integer limit.
C10_FetchNeverRaises == ~fh_out.raised

----------------------------------------------------------------------------
(* save_node_cache(nodes) then load_node_cache(), by the one thread that     *)
(* calls them.  mkstemp, json.dump, os.replace, os.unlink and the load are   *)
(* one step each.                                                            *)

\* Number of save / load rounds.
MaxSaves == 2

CacheRosters == {RosterOf(S) : S \in SUBSET {"a.example", "c.example"}}

CacheFrame ==
    UNCHANGED << active_sessions, masters, sockfiles, arg, cont, ret, hvars,
                 nvars, fvars, shutdown_event, api_nodes, to_start, uncollected,
                 stale, clean, prev_hosts, kvars, cvars, qvars, gvars, yvars,
                 lvars >>

\* makedirs and mkstemp: the temporary file exists and is empty, or the
\* exception is logged by the outer handler.
SaveOpen ==
    /\ pc["refresh"] = "sv_call"
    /\ \E nodes \in CacheRosters : filtered' = nodes
    /\ sv_ok' = FALSE
    /\ \/ /\ tmp_file' = Some(EmptyText)
          /\ pc' = [pc EXCEPT !["refresh"] = "sv_dump"]
       \/ /\ tmp_file' = tmp_file
          /\ pc' = [pc EXCEPT !["refresh"] = "sv_done"]
    /\ UNCHANGED << cache_file, cached_nodes, iter, last_saved, ld_err >>
    /\ CacheFrame

\* json.dump into the temporary file: all of the text, or part of it and an
\* exception.
SaveDump ==
    /\ pc["refresh"] = "sv_dump"
    /\ \/ /\ tmp_file' = Some(json_dumps(filtered))
          /\ pc' = [pc EXCEPT !["refresh"] = "sv_replace"]
       \/ /\ \E part \in Truncations(json_dumps(filtered)) : tmp_file' = Some(part)
          /\ pc' = [pc EXCEPT !["refresh"] = "sv_unlink"]
    /\ UNCHANGED << cache_file, cached_nodes, filtered, iter, last_saved, sv_ok,
                    ld_err >>
    /\ CacheFrame

\* os.replace(tmp_path, _CACHE_PATH): the rename, or an exception.
SaveReplace ==
    /\ pc["refresh"] = "sv_replace"
    /\ \/ /\ cache_file' = tmp_file
          /\ tmp_file' = None
          /\ last_saved' = Some(filtered)
          /\ sv_ok' = TRUE
          /\ pc' = [pc EXCEPT !["refresh"] = "sv_done"]
       \/ /\ UNCHANGED << cache_file, tmp_file, last_saved, sv_ok >>
          /\ pc' = [pc EXCEPT !["refresh"] = "sv_unlink"]
    /\ UNCHANGED << cached_nodes, filtered, iter, ld_err >>
    /\ CacheFrame

\* os.unlink(tmp_path) in the handler; whichever exception is in flight is
\* logged by the outer handler.
SaveUnlink ==
    /\ pc["refresh"] = "sv_unlink"
    /\ tmp_file' \in {None, tmp_file}
    /\ pc' = [pc EXCEPT !["refresh"] = "sv_done"]
    /\ UNCHANGED << cache_file, cached_nodes, filtered, iter, last_saved, sv_ok,
                    ld_err >>
    /\ CacheFrame

\* load_node_cache().
CacheLoad ==
    /\ pc["refresh"] = "sv_done"
    /\ \/ /\ cached_nodes' = None
          /\ ld_err' = TRUE
       \/ /\ cache_file # None
          /\ json_loads(cache_file[1]) # None
          /\ cached_nodes' = json_loads(cache_file[1])
          /\ ld_err' = FALSE
    /\ cached_nodes' \in load_node_cache
    /\ pc' = [pc EXCEPT !["refresh"] = "ld_done"]
    /\ UNCHANGED << cache_file, filtered, iter, tmp_file, last_saved, sv_ok >>
    /\ CacheFrame

\* The next round.
CacheAgain ==
    /\ pc["refresh"] = "ld_done"
    /\ iter + 1 < MaxSaves
    /\ iter' = iter + 1
    /\ pc' = [pc EXCEPT !["refresh"] = "sv_call"]
    /\ UNCHANGED << cache_file, cached_nodes, filtered, jvars >>
    /\ CacheFrame

\* No cache file, or the file an earlier run of the service saved.
InitCache ==
    /\ active_sessions = {}
    /\ masters = {}
    /\ sockfiles = {}
    /\ arg = [t \in Threads |-> "a.example"]
    /\ cont = [t \in Threads |-> "idle"]
    /\ ret = [t \in Threads |-> FALSE]
    /\ calls = 0
    /\ spawned = [t \in Callers |-> FALSE]
    /\ failed = [t \in Callers |-> FALSE]
    /\ peers = [t \in Callers |-> {}]
    /\ shutdown_event = FALSE
    /\ cached_nodes = None
    /\ api_nodes = None
    /\ to_start = {}
    /\ uncollected = {}
    /\ filtered = << >>
    /\ stale = {}
    /\ iter = 0
    /\ clean = FALSE
    /\ prev_hosts = {}
    /\ entries = {}
    /\ todo = {}
    /\ probed = << >>
    /\ rm_failed = {}
    /\ hosts = {}
    /\ HandlerIdle
    /\ node_cache = << >>
    /\ session_health = << >>
    /\ pc = [t \in Threads |-> IF t = "refresh" THEN "sv_call" ELSE "idle"]
    /\ lk_owner = [l \in {"cache", "session", "health", "status"} |-> [by |-> "none", n |-> 0]]
    /\ lk_todo = [t \in Threads |-> << >>]
    /\ sy_desired = [t \in Callers |-> {}]
    /\ sy_current = [t \in Callers |-> {}]
    /\ sy_add = [t \in Callers |-> {}]
    /\ sy_remove = [t \in Callers |-> {}]
    /\ sy_started = [t \in Callers |-> {}]
    /\ sy_stopped = [t \in Callers |-> {}]
    /\ tmp_file = None
    /\ sv_ok = FALSE
    /\ ld_err = FALSE
    /\ \/ cache_file = None /\ last_saved = None
       \/ \E r \in CacheRosters :
             cache_file = Some(json_dumps(r)) /\ last_saved = Some(r)

NextCache ==
    \/ SaveOpen
    \/ SaveDump
    \/ SaveReplace
    \/ SaveUnlink
    \/ CacheLoad
    \/ CacheAgain

SpecCache == InitCache /\ [][NextCache]_vars

\* C14: a load that raised nothing returns the roster of the last save that
\* replaced the file: the roster just saved when the save succeeded, else
\* the roster saved before it, or it finds no file.  The file never holds
\* a text that stops part-way.
C14_CacheRoundTrip ==
    /\ cache_file # None => json_loads(cache_file[1]) # None
    /\ pc["refresh"] = "ld_done" =>
          /\ sv_ok => last_saved = Some(filtered)
          /\ ~ld_err => cached_nodes = last_saved
          /\ ld_err => cached_nodes = None

\* A roster with a null city was saved and read back.
C14_Witness ==
    /\ pc["refresh"] = "ld_done"
    /\ sv_ok /\ ~ld_err
    /\ cached_nodes = Some(filtered)
    /\ \E i \in 1..Len(filtered) : filtered[i].city = Null

----------------------------------------------------------------------------
(* ping_from_node (core/ping.py).  The output of the remote command is a     *)
(* sequence of lines and a line is the sequence of its tokens: words,        *)
(* numerals, and the separators " ", "=" and "/".                            *)

\* The pieces of seq between the occurrences of sep: str.split(sep).
RECURSIVE SplitAt(_, _)
SplitAt(seq, sep) ==
    IF index(seq, sep) = 0
    THEN << seq >>
    ELSE << SubSeq(seq, 1, index(seq, sep) - 1) >>
            \o SplitAt(SubSeq(seq, index(seq, sep) + 1, Len(seq)), sep)

\* str.split(): the non-empty pieces between runs of whitespace.
Words(seq) == SelectSeq(SplitAt(seq, " "), LAMBDA w : w # << >>)

\* float(text) on the numerals that occur, in tenths; None for ValueError.
float(text) ==
    CASE text = << "1.0" >> -> Some(10)
      [] text = << "2.5" >> -> Some(25)
      [] text = << "3" >>   -> Some(30)
      [] text = << "0.5" >> -> Some(5)
      [] OTHER -> None

\* "rtt" in output, l.startswith("rtt")
HasRtt(tok) == tok \in {"rtt", "xrtt"}
StartsWithRtt(line) == Len(line) >= 1 /\ line[1] = "rtt"

\* rtt_line.split('=')[1].split()[0] and the four floats of its '/' pieces;
\* None when an index is out of range, a piece is no float, or the pieces
\* are not four.
ParseRtt(rtt_line) ==
    LET eq == SplitAt(rtt_line, "=")
    IN  IF Len(eq) < 2 \/ Words(eq[2]) = << >>
        THEN None
        ELSE LET parts == SplitAt(Words(eq[2])[1], "/")
             IN  IF Len(parts) # 4 \/ \E i \in 1..4 : float(parts[i]) = None
                 THEN None
                 ELSE Some([min |-> float(parts[1])[1], avg |-> float(parts[2])[1],
                            max |-> float(parts[3])[1], mdev |-> float(parts[4])[1]])

\* next((l for l in output.splitlines() if l.startswith("rtt")), None)
FirstRttLine(output) ==
    LET ls == SelectSeq(output, StartsWithRtt)
    IN  IF ls = << >> THEN None ELSE Some(ls[1])

PingResult(status, stats) == [status |-> status, stats |-> stats]

\* ping_from_node(node, target) as a function of the subprocess's outcome.
ping_from_node(run) ==
    CASE run.kind = "timeout" -> PingResult("ssh_timeout", None)
      [] run.kind = "nonzero" -> PingResult("ping_error", None)
      [] run.kind = "oserror" -> PingResult("exception", None)
      [] OTHER ->
           IF \E i \in 1..Len(run.output) : \E j \in 1..Len(run.output[i]) :
                 HasRtt(run.output[i][j])
           THEN IF FirstRttLine(run.output) = None
                THEN PingResult("no_rtt", None)
                ELSE IF ParseRtt(FirstRttLine(run.output)[1]) = None
                     THEN PingResult("exception", None)
                     ELSE PingResult("ok", ParseRtt(FirstRttLine(run.output)[1]))
           ELSE PingResult("no_rtt", None)

PingCall ==
    /\ pc["handler"] = "pg_call"
    /\ pg_status' = ping_from_node(pg_run).status
    /\ pg_stats' = ping_from_node(pg_run).stats
    /\ pc' = [pc EXCEPT !["handler"] = "pg_done"]
    /\ UNCHANGED << active_sessions, masters, sockfiles, arg, cont, ret, hvars,
                    nvars, fvars, rvars, kvars, cvars, qvars, jvars, yvars, lvars, pg_run >>

\* Lines a remote ping prints, well-formed and not.
PingLines ==
    {<< "PING", " ", "x" >>,
     << "rtt", " ", "min/avg/max/mdev", " ", "=", " ",
        "1.0", "/", "2.5", "/", "3", "/", "0.5", " ", "ms" >>,
     << "rtt", "=", "0.5", "/", "1.0", "/", "2.5", "/", "3" >>,
     << "rtt", " ", "1.0", "/", "2.5", "/", "3", "/", "0.5" >>,
     << "rtt", " ", "=", " ", "1.0", "/", "2.5", "/", "3" >>,
     << "rtt", " ", "=", " ", "x", "/", "x", "/", "x", "/", "x" >>,
     << "rtt", " ", "=" >>,
     << "x", " ", "xrtt", " ", "=", " ", "1.0", "/", "2.5", "/", "3", "/", "0.5" >>,
     << >>}

MaxLines == 2

PingOutputs == UNION {[1..n -> PingLines] : n \in 0..MaxLines}

PingRuns ==
    {[kind |-> "zero", output |-> o] : o \in PingOutputs}
        \cup {[kind |-> k, output |-> << >>] : k \in {"timeout", "nonzero", "oserror"}}

InitPing ==
    /\ IdleThreads
    /\ pc = [t \in Threads |-> IF t = "handler" THEN "pg_call" ELSE "idle"]
    /\ node_cache = << >>
    /\ session_health = << >>
    /\ fh_limit = None
    /\ fh_filters = << >>
    /\ fh_nodes = << >>
    /\ fh_hmap = << >>
    /\ fh_out = NoOutcome
    /\ rq_target = None
    /\ rq_limit = None
    /\ rq_args = << >>
    /\ resp = 0
    /\ results = << >>
    /\ pg_run \in PingRuns
    /\ pg_status = ""
    /\ pg_stats = None

SpecPing == InitPing /\ [][PingCall]_vars

\* A line of the shape rtt ... = MIN/AVG/MAX/MDEV ...
WellShaped(line) == StartsWithRtt(line) /\ ParseRtt(line) # None

WellShapedLines(output) == SelectSeq(output, WellShaped)

\* C13: the status is fixed by the run's outcome: timeout -> ssh_timeout,
\* non-zero exit -> ping_error, another local failure -> exception, zero exit
\* with a well-shaped rtt line -> ok with that line's four values, zero exit
\* with no such line -> no_rtt.
C13_StatusByOutcome ==
    pc["handler"] = "pg_done" =>
        CASE pg_run.kind = "timeout" -> pg_status = "ssh_timeout" /\ pg_stats = None
          [] pg_run.kind = "nonzero" -> pg_status = "ping_error" /\ pg_stats = None
          [] pg_run.kind = "oserror" -> pg_status = "exception" /\ pg_stats = None
          [] OTHER ->
               IF WellShapedLines(pg_run.output) # << >>
               THEN /\ pg_status = "ok"
                    /\ pg_stats = ParseRtt(WellShapedLines(pg_run.output)[1])
               ELSE pg_status = "no_rtt" /\ pg_stats = None

----------------------------------------------------------------------------
(* GET /probe (app/routes.py).  A parameter's text is the sequence of its    *)
(* characters (limit) or of its comma-separated tokens (the filters).        *)

Digits == {"0", "1", "2", "3", "4", "5", "6", "7", "8", "9"}

DigitVal(c) ==
    CASE c = "0" -> 0 [] c = "1" -> 1 [] c = "2" -> 2 [] c = "3" -> 3
      [] c = "4" -> 4 [] c = "5" -> 5 [] c = "6" -> 6 [] c = "7" -> 7
      [] c = "8" -> 8 [] OTHER -> 9

RECURSIVE DigitsValue(_)
DigitsValue(ds) ==
    IF ds = << >> THEN 0
    ELSE 10 * DigitsValue(SubSeq(ds, 1, Len(ds) - 1)) + DigitVal(ds[Len(ds)])

\* str.strip() on a sequence of characters.
RECURSIVE Strip(_)
Strip(cs) ==
    IF cs = << >> THEN cs
    ELSE IF Head(cs) = " " THEN Strip(Tail(cs))
    ELSE IF cs[Len(cs)] = " " THEN Strip(SubSeq(cs, 1, Len(cs) - 1))
    ELSE cs

\* int(text): optional surrounding whitespace, an optional sign, then one or
\* more digits; None for ValueError.
int(text) ==
    LET t      == Strip(text)
        signed == t # << >> /\ Head(t) \in {"+", "-"}
        ds     == IF signed THEN Tail(t) ELSE t
    IN  IF ds = << >> \/ \E i \in 1..Len(ds) : ds[i] \notin Digits
        THEN None
        ELSE Some(IF signed /\ Head(t) = "-" THEN 0 - DigitsValue(ds)
                  ELSE DigitsValue(ds))

\* v.strip().lower() on the filter values that occur.
strip_lower(v) ==
    CASE v = " asia" -> "asia"
      [] v = "europe " -> "europe"
      [] OTHER -> Lower(v)

\* {v.strip().lower() for v in value.split(',')}; an empty piece is "".
allowed_values(value) ==
    {IF piece = << >> THEN "" ELSE strip_lower(piece[1]) :
        piece \in Range(SplitAt(value, ","))}

\* filters[field] for every filter field whose parameter is non-empty.
BuildFilters(args) ==
    [field \in {f \in DOMAIN args \cap DOMAIN NODE_FILTER_FIELDS : args[f] # << >>}
        |-> allowed_values(args[field])]

\* is_valid_target(target): the name resolves.
is_valid_target(target) == target \in {"192.0.2.1", "ring.example"}

\* Steps of the handler that touch only the request and its own position.
ProbeFrame ==
    UNCHANGED << active_sessions, masters, sockfiles, arg, cont, ret, hvars,
                 nvars, rvars, kvars, cvars, gvars, jvars, yvars, lvars, rq_target, rq_limit, rq_args >>

\* target missing or not resolvable -> 400.
ProbeTarget ==
    /\ pc["handler"] = "p_target"
    /\ IF rq_target = None \/ rq_target[1] = "" \/ ~is_valid_target(rq_target[1])
       THEN /\ resp' = 400
            /\ pc' = [pc EXCEPT !["handler"] = "p_done"]
       ELSE /\ pc' = [pc EXCEPT !["handler"] = "p_limit"]
            /\ UNCHANGED resp
    /\ UNCHANGED << fvars, results >>
    /\ ProbeFrame

\* except ValueError: return "Invalid limit parameter", 400
LimitRejected(limit_param) ==
    limit_param # None /\ int(limit_param[1]) = None

\* limit = int(limit_param) if limit_param is not None else None; then the
\* filters dict, and the call of fetch_healthy_nodes.
ProbeLimit ==
    /\ pc["handler"] = "p_limit"
    /\ IF LimitRejected(rq_limit)
       THEN /\ resp' = 400
            /\ pc' = [pc EXCEPT !["handler"] = "p_done"]
            /\ UNCHANGED << fh_limit, fh_filters >>
       ELSE /\ fh_limit' = IF rq_limit = None THEN None ELSE int(rq_limit[1])
            /\ fh_filters' = BuildFilters(rq_args)
            /\ pc' = [pc EXCEPT !["handler"] = "fh_cache"]
            /\ UNCHANGED resp
    /\ UNCHANGED << fh_nodes, fh_hmap, fh_out, results >>
    /\ ProbeFrame

\* fetch_healthy_nodes has ended: an exception leaves the view function and
\* the framework answers 500; no nodes -> 503; else the fan-out starts.
ProbeFetched ==
    /\ pc["handler"] = "fh_done"
    /\ rq_target # None
    /\ IF fh_out.raised
       THEN /\ resp' = 500
            /\ pc' = [pc EXCEPT !["handler"] = "p_done"]
       ELSE IF fh_out.nodes = << >>
       THEN /\ resp' = 503
            /\ pc' = [pc EXCEPT !["handler"] = "p_done"]
       ELSE /\ pc' = [pc EXCEPT !["handler"] = "p_fan"]
            /\ UNCHANGED resp
    /\ UNCHANGED << fvars, results >>
    /\ ProbeFrame

\* The status labels a future yields: ping_from_node's, or future_error.
PingLabels == {ping_from_node(run).status : run \in PingRuns} \cup {"future_error"}

\* as_completed yields the future of one node; its status is recorded.
ProbeCollect(h) ==
    /\ pc["handler"] = "p_fan"
    /\ h \in Hostnames(fh_out.nodes) \ DOMAIN results
    /\ \E status \in PingLabels : results' = (h :> status) @@ results
    /\ UNCHANGED << pc, resp, fvars >>
    /\ ProbeFrame

\* Every future has been handled: the metrics or the JSON body, status 200.
ProbeRespond ==
    /\ pc["handler"] = "p_fan"
    /\ DOMAIN results = Hostnames(fh_out.nodes)
    /\ resp' = 200
    /\ pc' = [pc EXCEPT !["handler"] = "p_done"]
    /\ UNCHANGED << fvars, results >>
    /\ ProbeFrame

\* The parameters requests carry.
TargetParams == {None, Some(""), Some("no.such.name"), Some("192.0.2.1")}

LimitParams ==
    {None, Some(<< >>), Some(<< "a", "b", "c" >>), Some(<< "-", "1" >>),
     Some(<< "0" >>), Some(<< "1" >>), Some(<< " ", "2" >>), Some(<< "+", "1", "0" >>)}

ArgParams ==
    {<< >>,
     [continent |-> << >>],
     [continent |-> << "europe" >>],
     [continent |-> << "Europe", ",", " asia" >>],
     [continent |-> << "mars" >>],
     [node |-> << "a", ",", "c" >>, city |-> << "Amsterdam", "," >>]}

\* One request against a roster of up to three nodes in any health state.
InitProbe ==
    /\ IdleThreads
    /\ pc = [t \in Threads |-> IF t = "handler" THEN "p_target" ELSE "idle"]
    /\ \E k \in 0..3 : node_cache = RosterOf({PoolOrder[i] : i \in 1..k})
    /\ \E K \in SUBSET Hostnames(node_cache) :
          session_health \in [K -> {"healthy", "restarted"}]
    /\ rq_target \in TargetParams
    /\ rq_limit \in LimitParams
    /\ rq_args \in ArgParams
    /\ resp = 0
    /\ results = << >>
    /\ fh_limit = None
    /\ fh_filters = << >>
    /\ fh_nodes = << >>
    /\ fh_hmap = << >>
    /\ fh_out = NoOutcome
    /\ pg_run = [kind |-> "none", output |-> << >>]
    /\ pg_status = ""
    /\ pg_stats = None

NextProbe ==
    \/ ProbeTarget
    \/ ProbeLimit
    \/ FetchCache
    \/ FetchHealth
    \/ FetchSample
    \/ ProbeFetched
    \/ \E h \in HostPool : ProbeCollect(h)
    \/ ProbeRespond
    \/ \E h \in Hostnames(node_cache) : WorkerDemotes(h)

SpecProbe == InitProbe /\ [][NextProbe]_vars

\* The request has been answered, and its target was valid.
Answered == pc["handler"] = "p_done" /\ resp # 0
ValidTarget == rq_target # None /\ rq_target[1] # "" /\ is_valid_target(rq_target[1])

\* The limit parameter is present and is not a non-negative integer.
BadLimit ==
    rq_limit # None /\ (int(rq_limit[1]) = None \/ int(rq_limit[1])[1] < 0)

\* C11: a request with a valid target whose limit parameter is not a
\* non-negative integer is answered 400, with no node fetched, sampled or
\* probed.
C11_BadLimitAnswered400 ==
    (Answered /\ ValidTarget /\ BadLimit) =>
        /\ resp = 400
        /\ ~fh_out.done
        /\ results = << >>

\* The healthy nodes that pass the request's filters, as the handler read them.
HealthyFiltered == Filtered(fh_nodes, fh_filters)

\* C12: a request with a valid target and a valid limit is answered 503
\* exactly when no healthy node passes its filters; otherwise it is answered
\* 200 with a result for at least one node.
C12_503IffNoHealthyNode ==
    (Answered /\ ValidTarget /\ ~BadLimit) =>
        /\ (resp = 503) <=> (HealthyFiltered = << >>)
        /\ HealthyFiltered # << >> => (resp = 200 /\ DOMAIN results # {})

----------------------------------------------------------------------------
(* SSHSessionManager.start_session *)

\* The caller side of a call: position the thread at the function's entry.
Call(t, entry, hostname, k) ==
    /\ pc' = [pc EXCEPT ![t] = entry]
    /\ arg' = [arg EXCEPT ![t] = hostname]
    /\ cont' = [cont EXCEPT ![t] = k]

NoteSpawn(t) ==
    spawned' = IF t \in Callers THEN [spawned EXCEPT ![t] = TRUE] ELSE spawned

\* Mutant: the optimistic insert without the membership test.
StartLockNoCheck(t) ==
    /\ pc[t] = "ss_lock"
    /\ active_sessions' = active_sessions \cup {arg[t]}
    /\ pc' = [pc EXCEPT ![t] = "ss_spawn"]
    /\ NoteSpawn(t)
    /\ UNCHANGED << masters, sockfiles, arg, cont, ret, calls, failed, peers, NotSession >>

\* with self.lock: already present -> return True; else optimistic add.
StartLock(t) ==
    /\ pc[t] = "ss_lock"
    /\ IF arg[t] \in active_sessions
       THEN /\ ret' = [ret EXCEPT ![t] = TRUE]
            /\ pc' = [pc EXCEPT ![t] = cont[t]]
            /\ UNCHANGED << active_sessions, spawned >>
       ELSE /\ active_sessions' = active_sessions \cup {arg[t]}
            /\ pc' = [pc EXCEPT ![t] = "ss_spawn"]
            /\ NoteSpawn(t)
            /\ UNCHANGED ret
    /\ UNCHANGED << masters, sockfiles, arg, cont, calls, failed, peers, NotSession >>

\* subprocess.run(ssh -MNf ...) outside the lock: exit status zero leaves a
\* master listening on the control socket; a non-zero status or an exception
\* sends the thread to the rollback.
StartSpawn(t) ==
    /\ pc[t] = "ss_spawn"
    /\ \/ /\ masters' = masters \cup {ssh_control_path(arg[t])}
          /\ sockfiles' = sockfiles \cup {ssh_control_path(arg[t])}
          /\ ret' = [ret EXCEPT ![t] = TRUE]
          /\ pc' = [pc EXCEPT ![t] = cont[t]]
          /\ UNCHANGED failed
       \/ /\ pc' = [pc EXCEPT ![t] = "ss_rollback"]
          /\ failed' = IF t \in Callers THEN [failed EXCEPT ![t] = TRUE] ELSE failed
          /\ UNCHANGED << masters, sockfiles, ret >>
    /\ UNCHANGED << active_sessions, arg, cont, calls, spawned, peers, NotSession >>

\* A failure path that returns False and leaves the optimistic entry.
StartRollbackKeepsEntry(t) ==
    /\ pc[t] = "ss_rollback"
    /\ ret' = [ret EXCEPT ![t] = FALSE]
    /\ pc' = [pc EXCEPT ![t] = cont[t]]
    /\ UNCHANGED << active_sessions, masters, sockfiles, arg, cont, calls, spawned,
                    failed, peers, NotSession >>

\* with self.lock: self.active_sessions.discard(hostname); return False
StartRollback(t) ==
    /\ pc[t] = "ss_rollback"
    /\ active_sessions' = active_sessions \ {arg[t]}
    /\ ret' = [ret EXCEPT ![t] = FALSE]
    /\ pc' = [pc EXCEPT ![t] = cont[t]]
    /\ UNCHANGED << masters, sockfiles, arg, cont, calls, spawned, failed, peers, NotSession >>

InStart(t) == pc[t] \in {"ss_lock", "ss_spawn", "ss_rollback"}

\* A free caller invokes start_session(hostname).
CallerStart(t, hostname) ==
    /\ t \in Callers
    /\ pc[t] = "idle"
    /\ calls < MaxCalls
    /\ calls' = calls + 1
    /\ Call(t, "ss_lock", hostname, "idle")
    /\ spawned' = [spawned EXCEPT ![t] = FALSE]
    /\ failed' = [failed EXCEPT ![t] = FALSE]
    /\ LET now == {u \in Callers \ {t} : InStart(u) /\ arg[u] = hostname}
       IN  peers' = [u \in Callers |->
                        IF u = t THEN now
                        ELSE IF u \in now THEN peers[u] \cup {t}
                        ELSE peers[u] \ {t}]
    /\ UNCHANGED << active_sessions, masters, sockfiles, ret, NotSession >>

----------------------------------------------------------------------------
(* Concurrent start_session calls on a manager in any state *)

InitStart ==
    /\ active_sessions \in SUBSET Hosts
    /\ masters = {ssh_control_path(h) : h \in active_sessions}
    /\ sockfiles = masters
    /\ pc = [t \in Threads |-> "idle"]
    /\ arg = [t \in Threads |-> "a.example"]
    /\ cont = [t \in Threads |-> "idle"]
    /\ ret = [t \in Threads |-> FALSE]
    /\ calls = 0
    /\ spawned = [t \in Callers |-> FALSE]
    /\ failed = [t \in Callers |-> FALSE]
    /\ peers = [t \in Callers |-> {}]
    /\ cache_file = None
    /\ node_cache = << >>
    /\ session_health = << >>
    /\ CacheThreadNew
    /\ HandlerIdle

NextStart ==
    \E t \in Callers :
        \/ \E h \in Hosts : CallerStart(t, h)
        \/ StartLock(t)
        \/ StartSpawn(t)
        \/ StartRollback(t)

SpecStart == InitStart /\ [][NextStart]_vars

----------------------------------------------------------------------------
(* C2 *)

SpawnsInFlight(h) == {t \in Threads : pc[t] \in {"ss_spawn"} /\ arg[t] = h}

\* C2 (as stated): of two start_session calls for the same hostname that
\* overlap in time, at most one runs the ssh spawn, whether or not the first
\* spawn succeeds.
C2_AtMostOneSpawn ==
    \A t \in Callers : \A u \in peers[t] : ~(spawned[t] /\ spawned[u])

\* C2 (amended): two overlapping start_session calls for the same hostname never
\* have their spawns in flight together, and both of them spawn only when one
\* of the two spawns failed and was rolled back before the other call took the
\* lock.
C2_OneSpawnUnlessRolledBack ==
    /\ \A h \in Hosts : Cardinality(SpawnsInFlight(h)) <= 1
    /\ \A t \in Callers : \A u \in peers[t] :
          (spawned[t] /\ spawned[u]) => (failed[t] \/ failed[u])

\* Two overlapping calls, the first has spawned successfully and returned and
\* the second returned without spawning.
C2_Witness ==
    \E t \in Callers : \E u \in peers[t] :
        /\ pc[t] = "idle" /\ pc[u] = "idle"
        /\ spawned[t] /\ ~failed[t] /\ ~spawned[u] /\ ret[u]

\* C16: a start that finds its hostname absent inserts it before the spawn,
\* the entry stays while the spawn runs, and a spawn that exits non-zero or
\* raises starts no master and is followed by the rollback: the call returns
\* False, its hostname leaves the Session Set and no other hostname's
\* membership changes.
C16_RollbackOnSpawnFailure ==
    /\ [](\A t \in Callers :
             pc[t] \in {"ss_spawn", "ss_rollback"} => arg[t] \in active_sessions)
    /\ [][\A t \in Callers :
             /\ (pc[t] = "ss_lock" /\ pc'[t] = "ss_spawn") =>
                   /\ arg[t] \notin active_sessions
                   /\ active_sessions' = active_sessions \cup {arg[t]}
             /\ (pc[t] = "ss_spawn" /\ failed'[t]) =>
                   /\ pc'[t] = "ss_rollback"
                   /\ masters' = masters
                   /\ active_sessions' = active_sessions
             /\ (pc[t] = "ss_rollback" /\ pc'[t] # "ss_rollback") =>
                   /\ ret'[t] = FALSE
                   /\ pc'[t] = cont[t]
                   /\ arg[t] \notin active_sessions'
                   /\ \A g \in Hosts \ {arg[t]} :
                         g \in active_sessions' <=> g \in active_sessions]_vars

\* A call has failed its spawn and returned False with its hostname absent
\* again, beside another hostname that is present.
C16_Witness ==
    \E t \in Callers :
        /\ pc[t] = "idle" /\ spawned[t] /\ failed[t] /\ ~ret[t]
        /\ arg[t] \notin active_sessions
        /\ active_sessions # {}

\* ---------------------------------------------------------------------------
\* SSHSessionManager.stop_session
\* ---------------------------------------------------------------------------

\* A stop that goes on to its exit command whether or not the hostname is
\* present.
StopLockNoCheck(t) ==
    /\ pc[t] = "st_lock"
    /\ active_sessions' = active_sessions \ {arg[t]}
    /\ pc' = [pc EXCEPT ![t] = "st_exit"]
    /\ UNCHANGED << masters, sockfiles, arg, cont, ret, hvars, NotSession >>

\* with self.lock: absent -> return; else discard.
StopLock(t) ==
    /\ pc[t] = "st_lock"
    /\ IF arg[t] \notin active_sessions
       THEN /\ pc' = [pc EXCEPT ![t] = cont[t]]
            /\ UNCHANGED active_sessions
       ELSE /\ active_sessions' = active_sessions \ {arg[t]}
            /\ pc' = [pc EXCEPT ![t] = "st_exit"]
    /\ UNCHANGED << masters, sockfiles, arg, cont, ret, hvars, NotSession >>

\* subprocess.run(ssh -O exit ...) outside the lock: a live master exits and
\* its socket goes with it; with no master the command fails and is logged.
StopExit(t) ==
    /\ pc[t] = "st_exit"
    /\ masters' = masters \ {ssh_control_path(arg[t])}
    /\ sockfiles' = IF ssh_control_path(arg[t]) \in masters
                    THEN sockfiles \ {ssh_control_path(arg[t])}
                    ELSE sockfiles
    /\ pc' = [pc EXCEPT ![t] = cont[t]]
    /\ UNCHANGED << active_sessions, arg, cont, ret, hvars, NotSession >>

\* A free caller invokes stop_session(hostname).
CallerStop(t, hostname) ==
    /\ t \in Callers
    /\ pc[t] = "idle"
    /\ calls < MaxCalls
    /\ calls' = calls + 1
    /\ Call(t, "st_lock", hostname, "st_ret")
    /\ UNCHANGED << active_sessions, masters, sockfiles, ret, spawned, failed,
                    peers, NotSession >>

\* The caller invokes stop_session again, for the hostname it has just stopped.
CallerStopAgain(t) ==
    /\ t \in Callers
    /\ pc[t] = "st_ret"
    /\ Call(t, "st_lock", arg[t], "st_ret2")
    /\ UNCHANGED << active_sessions, masters, sockfiles, ret, hvars, NotSession >>

\* The caller is done with the hostname.
CallerStopDone(t) ==
    /\ t \in Callers
    /\ pc[t] \in {"st_ret", "st_ret2"}
    /\ pc' = [pc EXCEPT ![t] = "idle"]
    /\ UNCHANGED << active_sessions, masters, sockfiles, arg, cont, ret, hvars,
                    NotSession >>

\* Concurrent stop_session calls on a manager in any state: each hostname
\* present or not, its master alive, dead with its socket left, or gone.
InitStop ==
    /\ active_sessions \in SUBSET Hosts
    /\ sockfiles \in SUBSET {ssh_control_path(h) : h \in Hosts}
    /\ masters \in SUBSET sockfiles
    /\ pc = [t \in Threads |-> "idle"]
    /\ arg = [t \in Threads |-> "a.example"]
    /\ cont = [t \in Threads |-> "idle"]
    /\ ret = [t \in Threads |-> FALSE]
    /\ calls = 0
    /\ spawned = [t \in Callers |-> FALSE]
    /\ failed = [t \in Callers |-> FALSE]
    /\ peers = [t \in Callers |-> {}]
    /\ cache_file = None
    /\ node_cache = << >>
    /\ session_health = << >>
    /\ CacheThreadNew
    /\ HandlerIdle

NextStop ==
    \E t \in Callers :
        \/ \E h \in Hosts : CallerStop(t, h)
        \/ StopLock(t)
        \/ StopExit(t)
        \/ CallerStopAgain(t)
        \/ CallerStopDone(t)

SpecStop == InitStop /\ [][NextStop]_vars

\* C17: a stop of an absent hostname returns at once and changes nothing;
\* a stop of a present hostname removes it under the lock, before the exit
\* command is issued; the exit command, whether it ends the master or
\* fails, leaves the Session Set alone and the call returns normally; and a
\* second stop of the same hostname right after the first never reaches
\* the exit command.
C17_StopIdempotent ==
    /\ [](\A t \in Callers :
             /\ pc[t] \in {"st_exit", "st_ret", "st_ret2"} =>
                   arg[t] \notin active_sessions
             /\ pc[t] = "st_exit" => cont[t] = "st_ret")
    /\ [][\A t \in Callers :
             /\ (pc[t] = "st_lock" /\ pc'[t] # "st_lock") =>
                   IF arg[t] \in active_sessions
                   THEN /\ pc'[t] = "st_exit"
                        /\ active_sessions' = active_sessions \ {arg[t]}
                        /\ UNCHANGED << masters, sockfiles >>
                   ELSE /\ pc'[t] = cont[t]
                        /\ UNCHANGED << active_sessions, masters, sockfiles >>
             /\ (pc[t] = "st_exit" /\ pc'[t] # "st_exit") =>
                   /\ pc'[t] = cont[t]
                   /\ active_sessions' = active_sessions
                   /\ masters' \subseteq masters]_vars

\* A stop has removed its hostname and its exit command is about to fail,
\* for want of a live master.
C17_Witness ==
    \E t \in Callers :
        /\ pc[t] = "st_exit"
        /\ arg[t] \notin active_sessions
        /\ ssh_control_path(arg[t]) \in sockfiles \ masters

----------------------------------------------------------------------------
(* Concurrent start_session and stop_session calls on one manager *)

NextApi ==
    \E t \in Callers :
        \/ \E h \in Hosts : CallerStart(t, h)
        \/ StartLock(t)
        \/ StartSpawn(t)
        \/ StartRollback(t)
        \/ \E h \in Hosts : CallerStop(t, h)
        \/ StopLock(t)
        \/ StopExit(t)
        \/ CallerStopDone(t)

SpecApi == InitStart /\ [][NextApi]_vars

\* No start_session or stop_session call for the hostname is in progress.
Quiet(h) ==
    \A t \in Callers :
        pc[t] \in {"ss_lock", "ss_spawn", "ss_rollback", "st_lock", "st_exit"} => arg[t] # h

\* C27: once no start or stop of a hostname is in flight, a control master
\* runs for it only if the hostname is in the Session Set.
C27_NoOrphanedMaster ==
    \A h \in Hosts :
        (Quiet(h) /\ ssh_control_path(h) \in masters) => h \in active_sessions

\* ---------------------------------------------------------------------------
\* SSHSessionManager.sync_sessions
\* ---------------------------------------------------------------------------

SyncHosts == {"a.example", "b.example", "c.example"}

\* Bound on the number of sync_sessions calls the free callers make.
MaxSyncs == 2

\* A sync that stops every hostname of the snapshot.
to_removeAll(desired, current) == current

\* to_add = desired_hostnames - current ; to_remove = current - desired_hostnames
to_add(desired, current) == desired \ current
to_remove(desired, current) == current \ desired

SyncFrame ==
    UNCHANGED << nvars, fvars, rvars, kvars, cvars, qvars, gvars, jvars, lvars >>

\* A free caller invokes sync_sessions(desired).
CallerSync(t, desired) ==
    /\ t \in Callers
    /\ pc[t] = "idle"
    /\ calls < MaxSyncs
    /\ calls' = calls + 1
    /\ pc' = [pc EXCEPT ![t] = "sy_snap"]
    /\ sy_desired' = [sy_desired EXCEPT ![t] = desired]
    /\ sy_current' = [sy_current EXCEPT ![t] = {}]
    /\ sy_add' = [sy_add EXCEPT ![t] = {}]
    /\ sy_remove' = [sy_remove EXCEPT ![t] = {}]
    /\ sy_started' = [sy_started EXCEPT ![t] = {}]
    /\ sy_stopped' = [sy_stopped EXCEPT ![t] = {}]
    /\ spawned' = [spawned EXCEPT ![t] = FALSE]
    /\ failed' = [failed EXCEPT ![t] = FALSE]
    /\ UNCHANGED << active_sessions, masters, sockfiles, arg, cont, ret, peers >>
    /\ SyncFrame

\* with self.lock: the snapshot and the two differences.
SyncSnapshot(t) ==
    /\ t \in Callers
    /\ pc[t] = "sy_snap"
    /\ sy_current' = [sy_current EXCEPT ![t] = active_sessions]
    /\ sy_add' = [sy_add EXCEPT ![t] = to_add(sy_desired[t], active_sessions)]
    /\ sy_remove' = [sy_remove EXCEPT ![t] = to_remove(sy_desired[t], active_sessions)]
    /\ pc' = [pc EXCEPT ![t] = "sy_add"]
    /\ UNCHANGED << active_sessions, masters, sockfiles, arg, cont, ret, hvars,
                    sy_desired, sy_started, sy_stopped >>
    /\ SyncFrame

\* for host in to_add: self.start_session(host)
SyncStartNext(t) ==
    /\ t \in Callers
    /\ pc[t] = "sy_add"
    /\ IF sy_add[t] = {}
       THEN /\ pc' = [pc EXCEPT ![t] = "sy_remove"]
            /\ UNCHANGED << arg, cont, sy_add, sy_started >>
       ELSE \E host \in sy_add[t] :
                /\ sy_add' = [sy_add EXCEPT ![t] = @ \ {host}]
                /\ sy_started' = [sy_started EXCEPT ![t] = @ \cup {host}]
                /\ Call(t, "ss_lock", host, "sy_add")
    /\ UNCHANGED << active_sessions, masters, sockfiles, ret, hvars, sy_desired,
                    sy_current, sy_remove, sy_stopped >>
    /\ SyncFrame

\* for host in to_remove: self.stop_session(host)
SyncStopNext(t) ==
    /\ t \in Callers
    /\ pc[t] = "sy_remove"
    /\ IF sy_remove[t] = {}
       THEN /\ pc' = [pc EXCEPT ![t] = "sy_done"]
            /\ UNCHANGED << arg, cont, sy_remove, sy_stopped >>
       ELSE \E host \in sy_remove[t] :
                /\ sy_remove' = [sy_remove EXCEPT ![t] = @ \ {host}]
                /\ sy_stopped' = [sy_stopped EXCEPT ![t] = @ \cup {host}]
                /\ Call(t, "st_lock", host, "sy_remove")
    /\ UNCHANGED << active_sessions, masters, sockfiles, ret, hvars, sy_desired,
                    sy_current, sy_add, sy_started >>
    /\ SyncFrame

\* sync_sessions returns, and its locals are gone.
SyncReturn(t) ==
    /\ t \in Callers
    /\ pc[t] = "sy_done"
    /\ pc' = [pc EXCEPT ![t] = "idle"]
    /\ arg' = [arg EXCEPT ![t] = "a.example"]
    /\ cont' = [cont EXCEPT ![t] = "idle"]
    /\ ret' = [ret EXCEPT ![t] = FALSE]
    /\ sy_desired' = [sy_desired EXCEPT ![t] = {}]
    /\ sy_current' = [sy_current EXCEPT ![t] = {}]
    /\ sy_started' = [sy_started EXCEPT ![t] = {}]
    /\ sy_stopped' = [sy_stopped EXCEPT ![t] = {}]
    /\ spawned' = [spawned EXCEPT ![t] = FALSE]
    /\ failed' = [failed EXCEPT ![t] = FALSE]
    /\ UNCHANGED << active_sessions, masters, sockfiles, calls, peers, sy_add,
                    sy_remove >>
    /\ SyncFrame

\* Concurrent sync_sessions calls on a manager with any sessions running.
InitSync ==
    /\ active_sessions \in SUBSET SyncHosts
    /\ masters = {ssh_control_path(h) : h \in active_sessions}
    /\ sockfiles = masters
    /\ pc = [t \in Threads |-> "idle"]
    /\ arg = [t \in Threads |-> "a.example"]
    /\ cont = [t \in Threads |-> "idle"]
    /\ ret = [t \in Threads |-> FALSE]
    /\ calls = 0
    /\ spawned = [t \in Callers |-> FALSE]
    /\ failed = [t \in Callers |-> FALSE]
    /\ peers = [t \in Callers |-> {}]
    /\ cache_file = None
    /\ node_cache = << >>
    /\ session_health = << >>
    /\ CacheThreadNew
    /\ HandlerIdle

NextSync ==
    \E t \in Callers :
        \/ \E desired \in SUBSET SyncHosts : CallerSync(t, desired)
        \/ SyncSnapshot(t)
        \/ SyncStartNext(t)
        \/ SyncStopNext(t)
        \/ SyncReturn(t)
        \/ StartLock(t)
        \/ StartSpawn(t)
        \/ StartRollback(t)
        \/ StopLock(t)
        \/ StopExit(t)

SpecSync == InitSync /\ [][NextSync]_vars

\* C18: a sync calls start only for hostnames of desired that its snapshot
\* lacks and stop only for hostnames of the snapshot that desired lacks, and
\* by its end for all of them; run alone with every start succeeding, it
\* leaves the Session Set equal to desired.
C18_SyncStartsAndStops ==
    \A t \in Callers :
        /\ sy_started[t] \subseteq sy_desired[t] \ sy_current[t]
        /\ sy_stopped[t] \subseteq sy_current[t] \ sy_desired[t]
        /\ pc[t] = "sy_done" =>
              /\ sy_started[t] = sy_desired[t] \ sy_current[t]
              /\ sy_stopped[t] = sy_current[t] \ sy_desired[t]
              /\ (calls = 1 /\ ~failed[t]) => active_sessions = sy_desired[t]

\* A sync run alone has started one hostname, stopped another and kept a
\* third, and the Session Set is the desired set.
C18_Witness ==
    \E t \in Callers :
        /\ pc[t] = "sy_done"
        /\ calls = 1 /\ ~failed[t]
        /\ sy_started[t] # {} /\ sy_stopped[t] # {}
        /\ sy_desired[t] \cap sy_current[t] # {}
        /\ active_sessions = sy_desired[t]

\* A master process dies on its own (network loss, remote reboot) and leaves
\* its socket file behind.  Only the check probe tells a dead master from a
\* live one, so a death is taken when the host's check is about to run.
MasterDies(f) ==
    /\ f \in masters
    /\ \E h \in Hosts : pc[h] = "cm_check" /\ f = ssh_control_path(h)
    /\ masters' = masters \ {f}
    /\ UNCHANGED << active_sessions, sockfiles, pc, arg, cont, ret, hvars,
                    NotSession >>

\* ---------------------------------------------------------------------------
\* SSHSessionManager.cleanup_stale_sockets
\* A directory entry is the sequence of the tokens of its name.
\* ---------------------------------------------------------------------------

\* basename_template.split("%")[0]
prefix == "nlnog-"

\* entry.startswith(prefix)
startswith(entry, p) == Len(entry) >= 1 /\ entry[1] = p

RECURSIVE Join(_)
Join(seq) == IF seq = << >> THEN "" ELSE Head(seq) \o Join(Tail(seq))

\* remainder[at_idx + 1:colon_idx], None when index or rindex raises.
ParseHostname(entry) ==
    LET remainder == Tail(entry)
        at_idx    == index(remainder, "@")
        colon_idx == rindex(remainder, ":")
    IN  IF at_idx = 0 \/ colon_idx = 0
        THEN None
        ELSE Some(Join(SubSeq(remainder, at_idx + 1, colon_idx - 1)))

\* The entries the loop probes.
IsSocketName(entry) == startswith(entry, prefix) /\ ParseHostname(entry) # None

\* os.listdir(control_dir): the socket files and the cache file, if written.
listdir == sockfiles \cup (IF cache_file = None THEN {} ELSE {<< "node_cache.json" >>})

\* ssh -O check on the socket: zero exactly from a live master; the probe can
\* also time out, or fail to run at all (OSError).
ProbeOutcomes(entry) ==
    (IF entry \in masters THEN {"zero"} ELSE {"nonzero"}) \cup {"timeout", "oserror"}

\* Mutant: every probed socket is adopted, whatever the probe said.
ProbeEffectAdoptAll(entry, rc, rm) ==
    /\ active_sessions' = active_sessions \cup {ParseHostname(entry)[1]}
    /\ UNCHANGED << sockfiles, masters, rm_failed >>

\* The branches on the probe's result: add under the lock, or os.remove.
ProbeEffect(entry, rc, rm) ==
    /\ active_sessions' = IF rc = "zero"
                          THEN active_sessions \cup {ParseHostname(entry)[1]}
                          ELSE active_sessions
    /\ IF rc \in {"nonzero", "timeout"}
       THEN IF rm = "ok"
            THEN /\ sockfiles' = sockfiles \ {entry}
                 /\ masters' = masters \ {entry}
                 /\ UNCHANGED rm_failed
            ELSE /\ rm_failed' = rm_failed \cup {entry}
                 /\ UNCHANGED << sockfiles, masters >>
       ELSE UNCHANGED << sockfiles, masters, rm_failed >>

\* A missing control directory returns at once, as an empty listing does.
RecoverList ==
    /\ pc["refresh"] = "r_recover"
    /\ entries' = listdir
    /\ todo' = listdir
    /\ pc' = [pc EXCEPT !["refresh"] = "r_scan"]
    /\ UNCHANGED << active_sessions, masters, sockfiles, arg, cont, ret, hvars,
                    nvars, fvars, rvars, probed, rm_failed, cvars, xvars >>

\* One pass of the for loop.
RecoverEntry(entry) ==
    /\ pc["refresh"] = "r_scan"
    /\ entry \in todo
    /\ todo' = todo \ {entry}
    /\ IF IsSocketName(entry)
       THEN \E rc \in ProbeOutcomes(entry), rm \in {"ok", "oserror"} :
               /\ probed' = (entry :> rc) @@ probed
               /\ ProbeEffect(entry, rc, rm)
       ELSE UNCHANGED << active_sessions, sockfiles, masters, probed, rm_failed >>
    /\ UNCHANGED << pc, arg, cont, ret, hvars, nvars, fvars, rvars, entries,
                    cvars, xvars >>

RecoverDone ==
    /\ pc["refresh"] = "r_scan"
    /\ todo = {}
    /\ pc' = [pc EXCEPT !["refresh"] = "r_load"]
    /\ UNCHANGED << active_sessions, masters, sockfiles, arg, cont, ret, hvars,
                    nvars, fvars, rvars, kvars, cvars, xvars >>

\* Socket files found at startup: the current user's, one left by an earlier
\* username for the same host, and a name with no "@" or ":".
RecoverFiles ==
    {ssh_control_path(h) : h \in Hosts}
        \cup {<< "nlnog-", "old", "@", "a.example", ":", "22" >>,
              << "nlnog-", "rise", "a.example" >>}

InitRecover ==
    /\ sockfiles \in SUBSET RecoverFiles
    /\ masters \in SUBSET {f \in sockfiles : IsSocketName(f)}
    /\ cache_file \in {None, Some(json_dumps(<< >>))}
    /\ active_sessions = {}
    /\ pc = [t \in Threads |-> IF t = "refresh" THEN "r_recover" ELSE "idle"]
    /\ arg = [t \in Threads |-> "a.example"]
    /\ cont = [t \in Threads |-> "idle"]
    /\ ret = [t \in Threads |-> FALSE]
    /\ calls = 0
    /\ spawned = [t \in Callers |-> FALSE]
    /\ failed = [t \in Callers |-> FALSE]
    /\ peers = [t \in Callers |-> {}]
    /\ node_cache = << >>
    /\ session_health = << >>
    /\ CacheThreadNew
    /\ HandlerIdle

NextRecover ==
    \/ RecoverList
    \/ \E entry \in todo : RecoverEntry(entry)
    \/ RecoverDone

SpecRecover == InitRecover /\ [][NextRecover]_vars

\* After cleanup_stale_sockets has returned.
Recovered == pc["refresh"] = "r_load"

\* The sockets probed that name hostname h.
SocketsOf(h) == {f \in DOMAIN probed : ParseHostname(f) = Some(h)}

\* C8 (as stated): every session-named socket found at startup was probed;
\* its host is in the Session Set iff the probe exited zero, and a socket
\* whose probe did not exit zero is no longer on disk.
C8_AdoptIffZeroAndDeadRemoved ==
    Recovered =>
        /\ \A f \in entries : IsSocketName(f) => f \in DOMAIN probed
        /\ \A f \in DOMAIN probed :
              /\ (ParseHostname(f)[1] \in active_sessions) <=> (probed[f] = "zero")
              /\ probed[f] # "zero" => f \notin sockfiles

\* C8 (amended): every session-named socket found at startup was probed; a
\* host is in the Session Set iff some socket naming it probed zero; a socket
\* whose probe exited non-zero or timed out is gone from disk unless its
\* removal raised, and a socket whose probe exited zero is kept.
C8_AdoptIffSomeZeroRemovedUnlessError ==
    Recovered =>
        /\ \A f \in entries : IsSocketName(f) => f \in DOMAIN probed
        /\ \A h \in active_sessions \cup {ParseHostname(f)[1] : f \in DOMAIN probed} :
              (h \in active_sessions) <=> (\E f \in SocketsOf(h) : probed[f] = "zero")
        /\ \A f \in DOMAIN probed :
              /\ probed[f] \in {"nonzero", "timeout"} =>
                    ((f \in sockfiles) <=> (f \in rm_failed))
              /\ probed[f] = "zero" => f \in sockfiles

\* One socket adopted, and one dead socket removed, in the same scan.
C8_Witness ==
    /\ Recovered
    /\ \E f \in DOMAIN probed : probed[f] = "zero" /\ ParseHostname(f)[1] \in active_sessions
    /\ \E f \in DOMAIN probed : probed[f] = "nonzero" /\ f \notin sockfiles

\* ---------------------------------------------------------------------------
\* NodeManager: startup_restore_sessions, run_cache_loop,
\* check_and_manage_ssh_session and shutdown, running together.
\* The cache thread is "refresh"; the pool worker for a hostname carries the
\* hostname as its thread id; the signal handler runs as "shutdown".
\* ---------------------------------------------------------------------------

MaxIter == 1

\* ---- The catalog and NodeManager.filter_api_nodes -------------------------

\* str(n) of a non-negative integer.
DigitChar(d) ==
    CASE d = 0 -> "0" [] d = 1 -> "1" [] d = 2 -> "2" [] d = 3 -> "3"
      [] d = 4 -> "4" [] d = 5 -> "5" [] d = 6 -> "6" [] d = 7 -> "7"
      [] d = 8 -> "8" [] OTHER -> "9"

RECURSIVE str(_)
str(n) == IF n < 10 THEN DigitChar(n) ELSE str(n \div 10) \o DigitChar(n % 10)

\* str.upper() on the country codes that occur.
upper(cc) ==
    CASE cc = "nl" -> "NL" [] cc = "de" -> "DE" [] cc = "us" -> "US"
      [] cc = "jp" -> "JP" [] OTHER -> cc

\* core/geo.py get_continent on the country codes that occur.
get_continent(alpha2) ==
    CASE alpha2 = "NL" -> "Europe" [] alpha2 = "DE" -> "Europe"
      [] alpha2 = "US" -> "North America" [] alpha2 = "JP" -> "Asia"
      [] OTHER -> "Unknown"

\* A node of the catalog's JSON: results.nodes[i].
RawNode(h, alive) ==
    CASE h = "a.example" ->
           [hostname |-> h, asn |-> 64500, city |-> "Amsterdam", countrycode |-> "nl",
            participant |-> "p1", alive_ipv4 |-> TRUE, alive_ipv6 |-> alive]
      [] h = "b.example" ->
           [hostname |-> h, asn |-> 64501, city |-> "Berlin", countrycode |-> "de",
            participant |-> Null, alive_ipv4 |-> alive, alive_ipv6 |-> TRUE]
      [] h = "c.example" ->
           [hostname |-> h, asn |-> 64502, city |-> Null, countrycode |-> "us",
            participant |-> "p1", alive_ipv4 |-> TRUE, alive_ipv6 |-> alive]
      [] OTHER ->
           [hostname |-> h, asn |-> 64503, city |-> "Tokyo", countrycode |-> "jp",
            participant |-> "p2", alive_ipv4 |-> alive, alive_ipv6 |-> TRUE]

\* The catalogs: every host listed, any of them not alive on both families.
RawCatalogs ==
    {[i \in 1..Len(PoolOrder) |-> RawNode(PoolOrder[i], PoolOrder[i] \in A)] :
        A \in SUBSET Hosts}

\* fetch_participants(): the {id: company} map of the directory, or {} when
\* the fetch failed.
Directory == [id \in {"p1"} |-> "Acme"]
ParticipantOutcomes == {Directory, << >>}

\* participants.get(n.get("participant"), "Unknown")
company_of(participants, id) ==
    IF id \in DOMAIN participants THEN participants[id] ELSE "Unknown"

\* filter_api_nodes(raw_nodes, participants)
filter_api_nodes(raw_nodes, participants) ==
    LET alive == SelectSeq(raw_nodes, LAMBDA n : n.alive_ipv4 /\ n.alive_ipv6)
    IN  [i \in 1..Len(alive) |->
           [hostname |-> alive[i].hostname,
            asn |-> str(alive[i].asn),
            city |-> alive[i].city,
            countrycode |-> upper(alive[i].countrycode),
            continent |-> get_continent(upper(alive[i].countrycode)),
            company |-> company_of(participants, alive[i].participant)]]

\* What a catalog fetch can yield once filter_api_nodes has run, with the
\* directory at hand and without it.  The company is a label that no step of
\* the session logic reads.
Rosters == {filter_api_nodes(raw_nodes, Directory) : raw_nodes \in RawCatalogs}
RostersNoDirectory == {filter_api_nodes(raw_nodes, << >>) : raw_nodes \in RawCatalogs}

\* Steps of the cache thread that touch only its own position and locals.
RefreshFrame ==
    UNCHANGED << active_sessions, masters, sockfiles, arg, cont, ret, hvars,
                 fvars, kvars, cvars, xvars >>

\* load_node_cache(): the file's content, or None when it is missing or
\* cannot be read.  The locals of cleanup_stale_sockets are gone by now.
StartupLoad ==
    /\ pc["refresh"] = "r_load"
    /\ cached_nodes' \in load_node_cache
    /\ pc' = [pc EXCEPT !["refresh"] = "r_api"]
    /\ entries' = {}
    /\ probed' = << >>
    /\ rm_failed' = {}
    /\ UNCHANGED << nvars, shutdown_event, cache_file, api_nodes, to_start,
                    uncollected, filtered, stale, iter, clean, prev_hosts, todo >>
    /\ UNCHANGED << active_sessions, masters, sockfiles, arg, cont, ret, hvars,
                    fvars, cvars, xvars >>

\* save_node_cache(nodes): the file is replaced, or the failure is logged.
SaveOutcomes(nodes) == {Some(json_dumps(nodes)), cache_file}

\* The startup fetch and its save; any exception leaves api_nodes None.
StartupFetch ==
    /\ pc["refresh"] = "r_api"
    /\ \/ UNCHANGED << api_nodes, cache_file >>
       \/ \E r \in Rosters :
             /\ api_nodes' = Some(r)
             /\ cache_file' \in SaveOutcomes(r)
    /\ pc' = [pc EXCEPT !["refresh"] = "r_choose"]
    /\ UNCHANGED << nvars, shutdown_event, cached_nodes, to_start,
                    uncollected, filtered, stale, iter, clean, prev_hosts >>
    /\ RefreshFrame

\* Mutant: an empty fresh roster counts as no roster.
ChooseNodesTruthy(api, cached) ==
    IF api # None /\ api[1] # << >> THEN api ELSE cached

\* nodes = api_nodes if api_nodes is not None else cached_nodes
ChooseNodes(api, cached) == IF api # None THEN api ELSE cached

\* nodes is None -> return; else publish the roster.
StartupChoose ==
    /\ pc["refresh"] = "r_choose"
    /\ LET nodes == ChooseNodes(api_nodes, cached_nodes)
       IN  IF nodes = None
           THEN /\ pc' = [pc EXCEPT !["refresh"] = "r_top"]
                /\ UNCHANGED << node_cache, prev_hosts >>
           ELSE /\ node_cache' = nodes[1]
                /\ prev_hosts' = Hostnames(node_cache)
                /\ pc' = [pc EXCEPT !["refresh"] = "r_startpar"]
    /\ UNCHANGED << session_health, shutdown_event, cache_file, cached_nodes,
                    api_nodes, to_start, uncollected, filtered, stale, iter, clean >>
    /\ RefreshFrame

\* start_sessions_parallel: to_start under the lock, then one start_session
\* per host of to_start submitted to the pool.
StartParallel ==
    /\ pc["refresh"] = "r_startpar"
    /\ LET ts == Hostnames(node_cache) \ active_sessions
       IN  /\ to_start' = ts
           /\ uncollected' = ts
           /\ pc' = [t \in Threads |->
                        IF t = "refresh" THEN (IF ts = {} THEN "r_top" ELSE "r_collect")
                        ELSE IF t \in ts THEN "ss_lock" ELSE pc[t]]
           /\ arg' = [t \in Threads |-> IF t \in ts THEN t ELSE arg[t]]
           /\ cont' = [t \in Threads |-> IF t \in ts THEN "sp_done" ELSE cont[t]]
    /\ UNCHANGED << active_sessions, masters, sockfiles, ret, hvars, nvars, fvars,
                    shutdown_event, cache_file, cached_nodes, api_nodes, filtered,
                    stale, iter, clean, prev_hosts, kvars, cvars, xvars >>

\* as_completed yields a finished future; _progress records a success.
StartupCollect(h) ==
    /\ pc["refresh"] = "r_collect"
    /\ h \in uncollected
    /\ pc[h] = "sp_done"
    /\ session_health' = IF ret[h] THEN (h :> "healthy") @@ session_health
                         ELSE session_health
    /\ uncollected' = uncollected \ {h}
    /\ pc' = [pc EXCEPT ![h] = "idle",
                        !["refresh"] = IF uncollected = {h} THEN "r_top" ELSE "r_collect"]
    /\ UNCHANGED << node_cache, shutdown_event, cache_file, cached_nodes, api_nodes,
                    to_start, filtered, stale, iter, clean, prev_hosts >>
    /\ RefreshFrame

\* while not self.shutdown_event.is_set(); the locals of
\* startup_restore_sessions are gone by now.
LoopTopUpTo(n) ==
    /\ pc["refresh"] = "r_top"
    /\ IF shutdown_event
       THEN /\ pc' = [pc EXCEPT !["refresh"] = "r_exit"]
            /\ UNCHANGED iter
       ELSE /\ iter < n
            /\ iter' = iter + 1
            /\ pc' = [pc EXCEPT !["refresh"] = "r_fetch"]
    /\ cached_nodes' = None
    /\ api_nodes' = None
    /\ to_start' = {}
    /\ UNCHANGED << nvars, shutdown_event, cache_file, uncollected, filtered,
                    stale, clean, prev_hosts >>
    /\ RefreshFrame

LoopTop == LoopTopUpTo(MaxIter)

\* A fetch whose failure empties the published roster.
LoopFetchFromClears(rosters) ==
    /\ pc["refresh"] = "r_fetch"
    /\ \/ /\ clean' = FALSE
          /\ pc' = [pc EXCEPT !["refresh"] = "r_sleep"]
          /\ node_cache' = << >>
          /\ UNCHANGED << session_health, filtered, cache_file >>
       \/ /\ filtered' \in rosters
          /\ cache_file' \in SaveOutcomes(filtered')
          /\ pc' = [pc EXCEPT !["refresh"] = "r_publish"]
          /\ UNCHANGED << nvars, clean >>
    /\ UNCHANGED << shutdown_event, cached_nodes, api_nodes,
                    to_start, uncollected, stale, iter, prev_hosts >>
    /\ RefreshFrame

\* The fetch and filter_api_nodes, then save_node_cache(filtered), which only
\* this thread's file sees; a fetch exception goes to the except clause and on
\* to the wait.
LoopFetchFrom(rosters) ==
    /\ pc["refresh"] = "r_fetch"
    /\ \/ /\ clean' = FALSE
          /\ pc' = [pc EXCEPT !["refresh"] = "r_sleep"]
          /\ UNCHANGED << filtered, cache_file >>
       \/ /\ filtered' \in rosters
          /\ cache_file' \in SaveOutcomes(filtered')
          /\ pc' = [pc EXCEPT !["refresh"] = "r_publish"]
          /\ UNCHANGED clean
    /\ UNCHANGED << nvars, shutdown_event, cached_nodes, api_nodes,
                    to_start, uncollected, stale, iter, prev_hosts >>
    /\ RefreshFrame

LoopFetch == LoopFetchFrom(Rosters)

\* with self.cache_lock: self.node_cache = filtered
LoopPublish ==
    /\ pc["refresh"] = "r_publish"
    /\ node_cache' = filtered
    /\ prev_hosts' = Hostnames(node_cache)
    /\ pc' = [pc EXCEPT !["refresh"] = "r_submit"]
    /\ UNCHANGED << session_health, shutdown_event, cache_file, cached_nodes,
                    api_nodes, to_start, uncollected, filtered, stale, iter, clean >>
    /\ RefreshFrame

\* executor.map(self.check_and_manage_ssh_session, sorted(hostnames)): each
\* worker begins with start_session(hostname).
LoopSubmit ==
    /\ pc["refresh"] = "r_submit"
    /\ LET hostnames == Hostnames(filtered)
       IN  /\ pc' = [t \in Threads |->
                        IF t = "refresh" THEN "r_wait"
                        ELSE IF t \in hostnames THEN "ss_lock" ELSE pc[t]]
           /\ arg' = [t \in Threads |-> IF t \in hostnames THEN t ELSE arg[t]]
           /\ cont' = [t \in Threads |-> IF t \in hostnames THEN "cm_check" ELSE cont[t]]
    /\ UNCHANGED << active_sessions, masters, sockfiles, ret, hvars, nvars, fvars,
                    rvars, kvars, cvars, xvars >>

\* Mutant: no health entry is deleted.
PruneHealthKeepAll(hostnames) == session_health

\* for h in stale: del self.session_health[h]
PruneHealth(hostnames) ==
    [h \in DOMAIN session_health \cap hostnames |-> session_health[h]]

\* A prune that does not wait for the workers.
LoopPruneNoWait ==
    /\ pc["refresh"] = "r_wait"
    /\ stale' = DOMAIN session_health \ Hostnames(filtered)
    /\ session_health' = PruneHealth(Hostnames(filtered))
    /\ pc' = [pc EXCEPT !["refresh"] = "r_prune_stop"]
    /\ UNCHANGED << node_cache, shutdown_event, cache_file, cached_nodes, api_nodes,
                    to_start, uncollected, filtered, iter, clean, prev_hosts >>
    /\ RefreshFrame

\* Leaving the executor's with block waits for every worker; then the health
\* entries of hosts outside the roster are deleted under the lock.
LoopPrune ==
    /\ pc["refresh"] = "r_wait"
    /\ \A h \in Hosts : pc[h] = "idle"
    /\ stale' = DOMAIN session_health \ Hostnames(filtered)
    /\ session_health' = PruneHealth(Hostnames(filtered))
    /\ pc' = [pc EXCEPT !["refresh"] = "r_prune_stop"]
    /\ UNCHANGED << node_cache, shutdown_event, cache_file, cached_nodes, api_nodes,
                    to_start, uncollected, filtered, iter, clean, prev_hosts >>
    /\ RefreshFrame

\* for h in stale: self.ssh_sessions.stop_session(h); then the log line and
\* the end of the try block.
LoopStopStale ==
    /\ pc["refresh"] = "r_prune_stop"
    /\ IF stale = {}
       THEN /\ clean' = TRUE
            /\ pc' = [pc EXCEPT !["refresh"] = "r_sleep"]
            /\ UNCHANGED << stale, arg, cont >>
       ELSE \E h \in stale :
               /\ stale' = stale \ {h}
               /\ Call("refresh", "st_lock", h, "r_prune_stop")
               /\ UNCHANGED clean
    /\ UNCHANGED << active_sessions, masters, sockfiles, ret, hvars, nvars, fvars,
                    shutdown_event, cache_file, cached_nodes, api_nodes, to_start,
                    uncollected, filtered, iter, prev_hosts, kvars, cvars, xvars >>

\* self.shutdown_event.wait(timeout=CACHE_REFRESH_INTERVAL)
LoopWait ==
    /\ pc["refresh"] = "r_sleep"
    /\ pc' = [pc EXCEPT !["refresh"] = "r_top"]
    /\ UNCHANGED << nvars, rvars >>
    /\ RefreshFrame

\* ---- check_and_manage_ssh_session, in the worker for hostname h ----------

\* ssh -O check on the host's control path: zero exactly from a live master.
\* Zero: health := "healthy", return True.  Otherwise: stop_session.
CheckSession(h) ==
    /\ pc[h] = "cm_check"
    /\ IF ssh_control_path(h) \in masters
       THEN /\ session_health' = (h :> "healthy") @@ session_health
            /\ pc' = [pc EXCEPT ![h] = "idle"]
            /\ UNCHANGED << arg, cont >>
       ELSE /\ Call(h, "st_lock", h, "cm_restart")
            /\ UNCHANGED session_health
    /\ UNCHANGED << active_sessions, masters, sockfiles, ret, hvars, node_cache,
                    fvars, rvars, kvars, cvars, xvars >>

\* subprocess.run of the check is in no try block: when it raises (the ssh
\* program cannot be run), check_and_manage_ssh_session ends there, and the
\* exception stays in the result of executor.map that nothing reads.
CheckRaises(h) ==
    /\ pc[h] = "cm_check"
    /\ pc' = [pc EXCEPT ![h] = "idle"]
    /\ UNCHANGED << active_sessions, masters, sockfiles, arg, cont, ret, hvars,
                    nvars, fvars, rvars, kvars, cvars, xvars >>

\* self.ssh_sessions.start_session(hostname) after the stop.
RestartSession(h) ==
    /\ pc[h] = "cm_restart"
    /\ Call(h, "ss_lock", h, "cm_restarted")
    /\ UNCHANGED << active_sessions, masters, sockfiles, ret, hvars, nvars, fvars,
                    rvars, kvars, cvars, xvars >>

\* self.session_health[hostname] = "restarted"; return False
MarkRestarted(h) ==
    /\ pc[h] = "cm_restarted"
    /\ session_health' = (h :> "restarted") @@ session_health
    /\ pc' = [pc EXCEPT ![h] = "idle"]
    /\ UNCHANGED << active_sessions, masters, sockfiles, arg, cont, ret, hvars,
                    node_cache, fvars, rvars, kvars, cvars, xvars >>

\* ---- NodeManager.shutdown and SSHSessionManager.cleanup ------------------

\* self.shutdown_event.set()
ShutdownSet ==
    /\ pc["shutdown"] = "idle"
    /\ shutdown_event' = TRUE
    /\ pc' = [pc EXCEPT !["shutdown"] = "s_snap"]
    /\ UNCHANGED << active_sessions, masters, sockfiles, arg, cont, ret, hvars,
                    nvars, fvars, cache_file, cached_nodes, api_nodes, to_start,
                    uncollected, filtered, stale, iter, clean, prev_hosts, kvars,
                    cvars, xvars >>

\* with self.lock: hosts = list(self.active_sessions)
CleanupSnapshot ==
    /\ pc["shutdown"] = "s_snap"
    /\ hosts' = active_sessions
    /\ pc' = [pc EXCEPT !["shutdown"] = "s_loop"]
    /\ UNCHANGED << active_sessions, masters, sockfiles, arg, cont, ret, hvars,
                    nvars, fvars, rvars, kvars, xvars >>

\* for host in hosts: self.stop_session(host)
CleanupStopNext ==
    /\ pc["shutdown"] = "s_loop"
    /\ IF hosts = {}
       THEN /\ pc' = [pc EXCEPT !["shutdown"] = "s_clear"]
            /\ UNCHANGED << hosts, arg, cont >>
       ELSE \E h \in hosts :
               /\ hosts' = hosts \ {h}
               /\ Call("shutdown", "st_lock", h, "s_loop")
    /\ UNCHANGED << active_sessions, masters, sockfiles, ret, hvars, nvars, fvars,
                    rvars, kvars, xvars >>

\* with self.lock: self.active_sessions.clear()
CleanupClear ==
    /\ pc["shutdown"] = "s_clear"
    /\ active_sessions' = {}
    /\ pc' = [pc EXCEPT !["shutdown"] = "s_return"]
    /\ UNCHANGED << masters, sockfiles, arg, cont, ret, hvars, nvars, fvars,
                    rvars, kvars, cvars, xvars >>

\* logging.info("SSH session cleanup complete"); shutdown returns.
ShutdownReturn ==
    /\ pc["shutdown"] = "s_return"
    /\ pc' = [pc EXCEPT !["shutdown"] = "s_done"]
    /\ UNCHANGED << active_sessions, masters, sockfiles, arg, cont, ret, hvars,
                    nvars, fvars, rvars, kvars, cvars, xvars >>

\* ---- the whole service ----------------------------------------------------

\* A fresh worker process: sockets and a cache file possibly left by an
\* earlier run, nothing in memory, the cache thread about to start.
Init ==
    /\ sockfiles \in SUBSET {ssh_control_path(h) : h \in Hosts}
    /\ masters \in SUBSET sockfiles
    /\ cache_file \in {None, Some(json_dumps(RosterOf(Hosts)))}
    /\ active_sessions = {}
    /\ pc = [t \in Threads |-> IF t = "refresh" THEN "r_recover" ELSE "idle"]
    /\ arg = [t \in Threads |-> "a.example"]
    /\ cont = [t \in Threads |-> "idle"]
    /\ ret = [t \in Threads |-> FALSE]
    /\ calls = 0
    /\ spawned = [t \in Callers |-> FALSE]
    /\ failed = [t \in Callers |-> FALSE]
    /\ peers = [t \in Callers |-> {}]
    /\ node_cache = << >>
    /\ session_health = << >>
    /\ CacheThreadNew
    /\ HandlerIdle

Workers == Hosts \cup {"refresh", "shutdown"}

Next ==
    \/ RecoverList
    \/ \E entry \in todo : RecoverEntry(entry)
    \/ RecoverDone
    \/ StartupLoad
    \/ StartupFetch
    \/ StartupChoose
    \/ StartParallel
    \/ \E h \in Hosts : StartupCollect(h)
    \/ LoopTop
    \/ LoopFetch
    \/ LoopPublish
    \/ LoopSubmit
    \/ LoopPrune
    \/ LoopStopStale
    \/ LoopWait
    \/ \E h \in Hosts : CheckSession(h)
    \/ \E h \in Hosts : CheckRaises(h)
    \/ \E h \in Hosts : RestartSession(h)
    \/ \E h \in Hosts : MarkRestarted(h)
    \/ \E t \in Workers : StartLock(t)
    \/ \E t \in Workers : StartSpawn(t)
    \/ \E t \in Workers : StartRollback(t)
    \/ \E t \in Workers : StopLock(t)
    \/ \E t \in Workers : StopExit(t)
    \/ \E f \in masters : MasterDies(f)
    \/ ShutdownSet
    \/ CleanupSnapshot
    \/ CleanupStopNext
    \/ CleanupClear
    \/ ShutdownReturn

Spec == Init /\ [][Next]_vars

----------------------------------------------------------------------------
(* The locks and the subprocesses.  An operation is read as the sequence of  *)
(* its `with lock:` entries and exits and of its subprocess calls, in the    *)
(* order of the source; a thread works through the sequence, waiting where   *)
(* a lock is held by another thread.                                         *)

\* cache_lock, SSHSessionManager.lock, session_health_lock, last_node_status_lock
Locks == {"cache", "session", "health", "status"}

\* self.lock = threading.RLock(); the other three are threading.Lock().
Reentrant == {"session"}

Acq(l) == [a |-> "acq", l |-> l, h |-> ""]
Rel(l) == [a |-> "rel", l |-> l, h |-> ""]

\* with <lock>: ... , a block that calls nothing.
With(l) == << Acq(l), Rel(l) >>

\* subprocess.run / check_output: the call and its return.
Sub(kind, hostname) ==
    << [a |-> "run", l |-> kind, h |-> hostname],
       [a |-> "end", l |-> kind, h |-> hostname] >>

Cat(A, B) == {x \o y : x \in A, y \in B}
Opt(A) == {<< >>} \cup A

\* A start_session that spawns inside its lock.
start_opsLocked(h) ==
    {<< Acq("session") >> \o Sub("spawn", h) \o << Rel("session") >>}

\* start_session: present; spawned; spawned and rolled back.
start_ops(h) ==
    {With("session"),
     With("session") \o Sub("spawn", h),
     With("session") \o Sub("spawn", h) \o With("session")}

\* stop_session: absent; removed and the exit command run.
stop_ops(h) == {With("session"), With("session") \o Sub("exit", h)}

\* A fetch_healthy_nodes that reads the health map inside the roster's lock.
fetch_opsNested == {<< Acq("cache"), Acq("health"), Rel("health"), Rel("cache") >>}

\* fetch_healthy_nodes; /health and /debug take the same two locks in turn.
fetch_ops == {With("cache") \o With("health")}

\* GET /probe: the fetch, then one last_node_status update per result; the
\* pings run in the pool's threads.
probe_ops == Cat(fetch_ops, {<< >>, With("status"), With("status") \o With("status")})

\* GET /sessions
sessions_ops == {With("health")}

\* ping_from_node(node, target)
ping_ops(h) == {Sub("ping", h)}

\* check_and_manage_ssh_session: the check raises; healthy; restarted.
check_ops(h) ==
    Cat(Cat(start_ops(h), {Sub("check", h)}),
        {<< >>, With("health")} \cup
        Cat(Cat(stop_ops(h), start_ops(h)), {With("health")}))

\* cleanup_stale_sockets on one socket file: adopted, or not.
recover_ops(h) == Cat({Sub("probe", h)}, {<< >>, With("session")})

\* startup_restore_sessions: the recovery, the publish, the snapshot of
\* start_sessions_parallel, a progress callback or none, the count.
startup_ops(h) ==
    Cat(Cat(recover_ops(h), {With("cache") \o With("session")}),
        {With("health"), With("health") \o With("health")})

\* An iteration of run_cache_loop: the publish, the prune, a stale session
\* stopped or none, the count.
loop_ops(h) ==
    Cat(Cat({With("cache") \o With("health")}, Opt(stop_ops(h))), {With("health")})

\* cleanup: the snapshot, a stop or none, the clear.
cleanup_ops(h) ==
    Cat(Cat({With("session")}, Opt(stop_ops(h))), {With("session")})

\* sync_sessions: the snapshot, a start or none, a stop or none.
sync_ops(h, g) ==
    Cat(Cat({With("session")}, Opt(start_ops(h))), Opt(stop_ops(g)))

\* The threads and what each of them runs.
LockThreads == {"refresh", "shutdown", "handler", "a.example", "call1"}

OpsOf(t) ==
    CASE t = "refresh" -> startup_ops("b.example") \cup loop_ops("b.example")
      [] t = "shutdown" -> cleanup_ops("a.example")
      [] t = "handler" -> probe_ops \cup sessions_ops
      [] t = "a.example" -> check_ops(t) \cup start_ops(t) \cup ping_ops(t)
      [] OTHER -> sync_ops("b.example", "a.example")

\* Bound on the number of operations begun.
MaxOps == 3

Holds(t) == {l \in Locks : lk_owner[l].by = t /\ lk_owner[l].n > 0}

LockFrame ==
    UNCHANGED << active_sessions, masters, sockfiles, pc, arg, cont, ret, spawned,
                 failed, peers, nvars, fvars, rvars, kvars, cvars, qvars, gvars,
                 jvars, yvars >>

\* A thread begins one of its operations.
LockBegin(t) ==
    /\ lk_todo[t] = << >>
    /\ calls < MaxOps
    /\ calls' = calls + 1
    /\ \E ops \in OpsOf(t) : lk_todo' = [lk_todo EXCEPT ![t] = ops]
    /\ UNCHANGED lk_owner
    /\ LockFrame

\* lock.acquire(): free, or held by this thread and reentrant.
CanAcquire(t, l) ==
    \/ lk_owner[l].n = 0
    \/ lk_owner[l].by = t /\ l \in Reentrant

LockAcquire(t) ==
    /\ lk_todo[t] # << >>
    /\ Head(lk_todo[t]).a = "acq"
    /\ LET l == Head(lk_todo[t]).l
       IN  /\ CanAcquire(t, l)
           /\ lk_owner' = [lk_owner EXCEPT ![l] = [by |-> t, n |-> @.n + 1]]
    /\ lk_todo' = [lk_todo EXCEPT ![t] = Tail(@)]
    /\ UNCHANGED calls
    /\ LockFrame

\* lock.release() at the end of the with block.
LockRelease(t) ==
    /\ lk_todo[t] # << >>
    /\ Head(lk_todo[t]).a = "rel"
    /\ LET l == Head(lk_todo[t]).l
       IN  lk_owner' = [lk_owner EXCEPT ![l] =
                           IF @.n = 1 THEN [by |-> "none", n |-> 0]
                           ELSE [by |-> @.by, n |-> @.n - 1]]
    /\ lk_todo' = [lk_todo EXCEPT ![t] = Tail(@)]
    /\ UNCHANGED calls
    /\ LockFrame

\* A subprocess is started, or returns.
LockSubprocess(t) ==
    /\ lk_todo[t] # << >>
    /\ Head(lk_todo[t]).a \in {"run", "end"}
    /\ lk_todo' = [lk_todo EXCEPT ![t] = Tail(@)]
    /\ UNCHANGED << calls, lk_owner >>
    /\ LockFrame

InitLocks ==
    /\ IdleThreads
    /\ HandlerIdle
    /\ pc = [t \in Threads |-> "idle"]
    /\ node_cache = << >>
    /\ session_health = << >>

NextLocks ==
    \E t \in LockThreads :
        \/ LockBegin(t)
        \/ LockAcquire(t)
        \/ LockRelease(t)
        \/ LockSubprocess(t)

SpecLocks == InitLocks /\ [][NextLocks]_vars

\* The thread's next step is an acquisition it has to wait for.
Waiting(t) ==
    /\ lk_todo[t] # << >>
    /\ Head(lk_todo[t]).a = "acq"
    /\ ~CanAcquire(t, Head(lk_todo[t]).l)

\* The subprocess the thread is waiting on: started and not yet returned.
InSubprocess(t) == lk_todo[t] # << >> /\ Head(lk_todo[t]).a = "end"

\* C24: no thread holds two locks at once, and whenever some thread is
\* waiting for a lock, a thread that is not waiting has a step to take.
C24_OneLockAtATime ==
    /\ \A t \in LockThreads : Cardinality(Holds(t)) <= 1
    /\ (\E t \in LockThreads : Waiting(t)) =>
          \E u \in LockThreads : lk_todo[u] # << >> /\ ~Waiting(u)

\* The shutdown path holds the session lock while a worker waits for it,
\* and the handler holds the health lock.
C24_Witness ==
    /\ Holds("shutdown") = {"session"}
    /\ Waiting("a.example")
    /\ Holds("handler") = {"health"}

\* C25: a thread that is about to start a subprocess, or is waiting for one
\* to return, holds no lock.
C25_NoSubprocessUnderLock ==
    \A t \in LockThreads :
        (lk_todo[t] # << >> /\ Head(lk_todo[t]).a \in {"run", "end"}) => Holds(t) = {}

\* Two start_session calls for different hostnames with their spawns running.
C25_Witness ==
    \E t, u \in LockThreads :
        /\ InSubprocess(t) /\ InSubprocess(u)
        /\ Head(lk_todo[t]).l = "spawn" /\ Head(lk_todo[u]).l = "spawn"
        /\ Head(lk_todo[t]).h # Head(lk_todo[u]).h

----------------------------------------------------------------------------
(* The refresh loop alone, over two iterations, with the participants       *)
(* directory reachable or not at each fetch.                                *)

\* Number of iterations of the loop.
MaxLoops == 2

\* startup_restore_sessions has returned: a roster is published, sessions run
\* for some hostnames, those of them in the roster are healthy.
InitLoop ==
    /\ node_cache \in Rosters
    /\ active_sessions \in SUBSET Hosts
    /\ masters = {ssh_control_path(h) : h \in active_sessions}
    /\ sockfiles = masters
    /\ session_health = [h \in active_sessions \cap Hostnames(node_cache) |-> "healthy"]
    /\ cache_file \in {None, Some(json_dumps(node_cache))}
    /\ pc = [t \in Threads |-> IF t = "refresh" THEN "r_top" ELSE "idle"]
    /\ arg = [t \in Threads |-> "a.example"]
    /\ cont = [t \in Threads |-> "idle"]
    /\ ret = [t \in Threads |-> FALSE]
    /\ calls = 0
    /\ spawned = [t \in Callers |-> FALSE]
    /\ failed = [t \in Callers |-> FALSE]
    /\ peers = [t \in Callers |-> {}]
    /\ CacheThreadNew
    /\ HandlerIdle

NextLoop ==
    \/ LoopTopUpTo(MaxLoops)
    \/ LoopFetchFrom(Rosters \cup RostersNoDirectory)
    \/ LoopPublish
    \/ LoopSubmit
    \/ LoopPrune
    \/ LoopStopStale
    \/ LoopWait
    \/ \E h \in Hosts : CheckSession(h)
    \/ \E h \in Hosts : CheckRaises(h)
    \/ \E h \in Hosts : RestartSession(h)
    \/ \E h \in Hosts : MarkRestarted(h)
    \/ \E t \in Workers : StartLock(t)
    \/ \E t \in Workers : StartSpawn(t)
    \/ \E t \in Workers : StartRollback(t)
    \/ \E t \in Workers : StopLock(t)
    \/ \E t \in Workers : StopExit(t)
    \/ \E f \in masters : MasterDies(f)

SpecLoop == InitLoop /\ [][NextLoop]_vars

\* C22: an iteration whose fetch fails goes to the wait with the roster, the
\* cache file, the health map, the Session Set and the masters as they were;
\* the wait is followed by the next test of the shutdown event and, the
\* event not set, by the next fetch; and a fetch succeeds with the
\* participants map empty as well as with the directory's map.
C22_FailedFetchChangesNothing ==
    [][/\ (pc["refresh"] = "r_fetch" /\ pc'["refresh"] = "r_sleep") =>
             UNCHANGED << node_cache, cache_file, session_health, active_sessions,
                          masters, sockfiles >>
       /\ (pc["refresh"] = "r_sleep" /\ pc'["refresh"] # "r_sleep") =>
             /\ pc'["refresh"] = "r_top"
             /\ UNCHANGED << node_cache, cache_file, session_health, active_sessions,
                             masters, sockfiles >>
       /\ (pc["refresh"] = "r_top" /\ pc'["refresh"] # "r_top" /\ ~shutdown_event) =>
             pc'["refresh"] = "r_fetch"
       /\ (pc["refresh"] = "r_fetch" /\ pc'["refresh"] # "r_fetch") =>
             \/ pc'["refresh"] = "r_sleep"
             \/ /\ pc'["refresh"] = "r_publish"
                /\ \E raw_nodes \in RawCatalogs, participants \in ParticipantOutcomes :
                      filtered' = filter_api_nodes(raw_nodes, participants)
      ]_vars

\* The first iteration's fetch failed and left a roster published; the second
\* iteration fetched a.example although the participants fetch had failed.
C22_Witness ==
    /\ iter = 2
    /\ pc["refresh"] = "r_publish"
    /\ ~clean
    /\ node_cache # << >>
    /\ active_sessions # {}
    /\ \E i \in 1..Len(filtered) :
          filtered[i].hostname = "a.example" /\ filtered[i].company = "Unknown"

----------------------------------------------------------------------------
(* Properties of the running service *)

\* The cache thread is between iterations and no worker is running.
BetweenIterations == pc["refresh"] = "r_sleep"

\* The last iteration ran to the end of its try block.
CleanIteration == BetweenIterations /\ clean

\* startup_restore_sessions has just returned.
StartupReturned == pc["refresh"] = "r_top" /\ iter = 0

\* C1, on the restart path of check_and_manage_ssh_session: with no shutdown
\* requested and no reconciliation in progress, every hostname whose health
\* is restarted is in the Session Set.
C1_RestartedImpliesPresent ==
    (BetweenIterations /\ pc["shutdown"] = "idle") =>
        \A h \in DOMAIN session_health :
            session_health[h] = "restarted" => h \in active_sessions

\* C3: after a refresh iteration that raised no exception, every hostname
\* with a health entry is a hostname of the roster that iteration published.
C3_HealthWithinRoster ==
    CleanIteration => DOMAIN session_health \subseteq Hostnames(node_cache)

\* A clean iteration whose roster dropped a host, with health entries left.
C3_Witness ==
    /\ CleanIteration
    /\ prev_hosts \ Hostnames(node_cache) # {}
    /\ DOMAIN session_health # {}

\* C6: after a clean refresh iteration, a hostname of the previous roster
\* that the new roster lacks has neither a session nor a health entry.
C6_DroppedHostGone ==
    (CleanIteration /\ pc["shutdown"] = "idle") =>
        \A c \in prev_hosts \ Hostnames(node_cache) :
            c \notin active_sessions /\ c \notin DOMAIN session_health

\* C7: when startup_restore_sessions returns, the roster is the fresh fetch
\* if it succeeded, else the cache as loaded from the unchanged file, else
\* still empty with no start attempted; a roster taken from the cache has a
\* start submitted for each of its hostnames not already in the Session Set.
C7_StartupRosterChoice ==
    StartupReturned =>
        /\ api_nodes # None => node_cache = api_nodes[1]
        /\ (api_nodes = None /\ cached_nodes # None) =>
              /\ node_cache = cached_nodes[1]
              /\ cache_file # None /\ cached_nodes = json_loads(cache_file[1])
              /\ to_start \subseteq Hostnames(cached_nodes[1])
              /\ pc["shutdown"] = "idle" =>
                    Hostnames(cached_nodes[1]) \ to_start \subseteq active_sessions
        /\ (api_nodes = None /\ cached_nodes = None) =>
              /\ node_cache = << >>
              /\ to_start = {}
              /\ session_health = << >>

\* Catalog down, cache loaded: a start ran for every cached hostname and one
\* of them succeeded.
C7_Witness ==
    /\ StartupReturned
    /\ api_nodes = None
    /\ cached_nodes # None
    /\ to_start = Hostnames(cached_nodes[1])
    /\ \E h \in to_start : h \in DOMAIN session_health

\* The calls that have changed the Session Set for h and have their
\* subprocess or their rollback still ahead of them.
TransitionsInFlight(h) ==
    {t \in Threads : pc[t] \in {"ss_spawn", "ss_rollback", "st_exit"} /\ arg[t] = h}

\* C15: at every instant and for every hostname, at most one start that has
\* inserted the hostname, or stop that has removed it, is still unfinished.
C15_OneTransitionInFlight ==
    \A h \in Hosts : Cardinality(TransitionsInFlight(h)) <= 1

\* C19: check_and_manage_ssh_session leaves its check in one of two ways:
\* the check exited zero, the hostname's health becomes healthy and no stop
\* is called; or the check failed and stop_session is called, followed by
\* start_session and by the hostname's health becoming restarted.  No step
\* of a worker changes the health of another hostname.
C19_TwoEndings ==
    [][\A h \in Hosts :
          /\ (pc[h] = "cm_check" /\ pc'[h] # "cm_check") =>
                \/ /\ pc'[h] = "idle"
                   /\ h \in DOMAIN session_health'
                   /\ session_health'[h] = "healthy"
                \/ /\ pc'[h] = "st_lock" /\ arg'[h] = h /\ cont'[h] = "cm_restart"
                   /\ UNCHANGED session_health
          /\ (pc[h] = "cm_restart" /\ pc'[h] # "cm_restart") =>
                pc'[h] = "ss_lock" /\ arg'[h] = h /\ cont'[h] = "cm_restarted"
          /\ (pc[h] = "cm_restarted" /\ pc'[h] # "cm_restarted") =>
                /\ h \in DOMAIN session_health'
                /\ session_health'[h] = "restarted"
          /\ (pc[h] # pc'[h] /\ pc["refresh"] = "r_wait") =>
                \A g \in DOMAIN session_health \ {h} :
                    g \in DOMAIN session_health' /\ session_health'[g] = session_health[g]
      ]_vars

\* C20: a start that fails during the reconciliation sets the hostname's
\* health to error: after an iteration that ran to its end, with no shutdown
\* requested, a hostname of the roster that is not in the Session Set is
\* labelled neither healthy nor restarted.
C20_StartFailureLabelledError ==
    (CleanIteration /\ pc["shutdown"] = "idle") =>
        \A h \in Hostnames(node_cache) \ active_sessions :
            h \in DOMAIN session_health => session_health[h] = "error"

\* C21: within an iteration of the loop the cache file is written with the
\* new roster while the old one is still published; the roster is published
\* next, before any worker runs; the workers run on the published roster;
\* health entries are deleted, and stale sessions stopped by the cache thread,
\* only once every worker has finished.
C21_PersistPublishReconcilePrune ==
    [][iter >= 1 =>
          /\ cache_file' # cache_file =>
                /\ pc["refresh"] = "r_fetch"
                /\ cache_file' = Some(json_dumps(filtered'))
                /\ node_cache' = node_cache
          /\ node_cache' # node_cache =>
                /\ pc["refresh"] = "r_publish"
                /\ node_cache' = filtered
                /\ \A h \in Hosts : pc[h] = "idle" /\ pc'[h] = "idle"
          /\ \A h \in Hosts : (pc[h] = "idle" /\ pc'[h] # "idle") =>
                /\ pc["refresh"] = "r_submit"
                /\ node_cache = filtered
                /\ h \in Hostnames(node_cache)
          /\ (pc["refresh"] = "r_submit" /\ pc'["refresh"] # "r_submit") =>
                \A h \in Hostnames(filtered) : pc'[h] # "idle"
          /\ (DOMAIN session_health' # DOMAIN session_health
                 /\ DOMAIN session_health' \subseteq DOMAIN session_health) =>
                /\ pc["refresh"] = "r_wait"
                /\ \A h \in Hosts : pc[h] = "idle"
                /\ DOMAIN session_health' = DOMAIN session_health \cap Hostnames(node_cache)
          /\ (pc'["refresh"] = "st_lock" /\ pc["refresh"] # "st_lock") =>
                /\ pc["refresh"] = "r_prune_stop"
                /\ \A h \in Hosts : pc[h] = "idle"
                /\ arg'["refresh"] \notin Hostnames(node_cache)
                /\ arg'["refresh"] \notin DOMAIN session_health
      ]_vars

\* An iteration saved and published its roster, ran its workers and has
\* deleted a health entry of a hostname outside the roster.
C21_Witness ==
    /\ pc["refresh"] = "r_prune_stop"
    /\ iter >= 1
    /\ stale # {}
    /\ node_cache = filtered
    /\ cache_file = Some(json_dumps(filtered))
    /\ node_cache # << >>
    /\ \E h \in Hostnames(node_cache) : h \in DOMAIN session_health

\* C23: with the shutdown event set, the cache thread takes no step that
\* begins a later phase of its iteration (the publish, the submission of
\* the workers, the prune and its stops) and begins no new iteration.  A
\* fetch whose loop test passed before the event was set is not counted.
C23_NoPhaseAfterShutdown ==
    [][(shutdown_event /\ iter >= 1 /\ pc'["refresh"] # pc["refresh"]) =>
          /\ pc["refresh"] \notin {"r_publish", "r_submit", "r_wait"}
          /\ pc'["refresh"] # "r_fetch"
      ]_vars

\* C28: when startup_restore_sessions has returned, every hostname of the
\* roster that is in the Session Set has health healthy, the sessions adopted
\* by cleanup_stale_sockets included.
C28_StartupLeavesPresentHealthy ==
    StartupReturned =>
        \A h \in Hostnames(node_cache) \cap active_sessions :
            h \in DOMAIN session_health /\ session_health[h] = "healthy"

\* C29: after an iteration of the refresh loop that ran to the end of its
\* try block, every hostname of the Session Set is in the roster the
\* iteration published.
C29_SessionsWithinRoster ==
    CleanIteration => active_sessions \subseteq Hostnames(node_cache)

\* cleanup() has returned.
CleanupReturned == pc["shutdown"] \in {"s_return", "s_done"}

\* C30: from the return of cleanup on, no step of a pool worker (a start of
\* start_sessions_parallel, a start or restart of
\* check_and_manage_ssh_session) adds a hostname to the Session Set or
\* spawns a master.
C30_NothingAfterCleanup ==
    [][(CleanupReturned /\ \E h \in Hosts : pc'[h] # pc[h]) =>
          /\ active_sessions' \subseteq active_sessions
          /\ masters' \subseteq masters
      ]_vars

\* C9: when shutdown returns, the shutdown event is set and the Session Set
\* is empty.
C9_ShutdownLeavesNoSession ==
    pc["shutdown"] = "s_return" => (shutdown_event /\ active_sessions = {})

====
